---- MODULE Spec2Model ----
(***************************************************************************)
(* Model of the animation editor (src/app.py) and of its rendering core    *)
(* (src/utils/anims.py).                                                   *)
(*                                                                         *)
(* Time.  Durations are Python floats holding seconds.  The model keeps    *)
(* them as whole numbers of ticks, TicksPerSec ticks to the second, so     *)
(* int(duration_sec * fps) is (ticks * fps) \div TicksPerSec.  The         *)
(* arithmetic is exact: binary rounding of the float product is not        *)
(* modelled.                                                               *)
(*                                                                         *)
(* None.  An optional object is a sequence of length 0 (None) or 1; an     *)
(* optional index is -1 (None) or a 0-based Python index; the sprite None  *)
(* is NoneSprite.                                                          *)
(*                                                                         *)
(* Exceptions.  A function that can raise returns a record whose err field *)
(* names the exception ("none" when it returns normally).                  *)
(*                                                                         *)
(* Specifications.  SpecSample, SpecSched, SpecCam and SpecCompose each    *)
(* run one function of anims.py on bounded arguments; Spec runs the        *)
(* handlers of the Scenes tab of the editor from a fresh application.      *)
(* SpecWalks runs the two cursor walks side by side; SpecActor writes an   *)
(* actor to a dictionary, reads it back and writes it again, SpecScene a   *)
(* scene with its camera links.  SpecEdit builds a document by hand with   *)
(* the handlers of both tabs; SpecPopup plays an AnimationPopup.           *)
(***************************************************************************)
EXTENDS Integers, Sequences, FiniteSets, TLC

VARIABLES
    pc,                 \* a core call: "call" then "return"; the editor: the
                        \* handler that has just rendered, "idle" after any other
    args,               \* the arguments of the call under study
    locals,             \* the local variables of the call while it loops
    ret,                \* what the call returned or raised
    actors,             \* AnimationEditorApp.actors
    actors_save_status, \* AnimationEditorApp.actors_save_status
    curr_actor_idx,     \* AnimationEditorApp.curr_actor_idx
    curr_action_idx,    \* AnimationEditorApp.curr_action_idx
    curr_comp_idx,      \* AnimationEditorApp.curr_comp_idx
    scenes,             \* AnimationEditorApp.scenes
    scenes_save_status, \* AnimationEditorApp.scenes_save_status
    curr_scene_idx,     \* AnimationEditorApp.curr_scene_idx
    curr_cam_move_idx,  \* AnimationEditorApp.curr_cam_move_idx
    curr_sa_idx,        \* AnimationEditorApp.curr_sa_idx
    curr_sched_idx,     \* AnimationEditorApp.curr_sched_idx
    popups,             \* AnimationPopup windows the last handler opened
    files,              \* video files the last handler wrote
    notices,            \* messagebox notices the last handler showed
    called              \* core functions the last handler entered

\* the attributes of the application object
doc_vars == <<actors, actors_save_status, curr_actor_idx, curr_action_idx,
              curr_comp_idx, scenes, scenes_save_status, curr_scene_idx,
              curr_cam_move_idx, curr_sa_idx, curr_sched_idx>>

\* what a handler does to the outside
out_vars == <<popups, files, notices, called>>

app_vars == <<doc_vars, out_vars>>

vars == <<pc, args, locals, ret, doc_vars, out_vars>>

----------------------------------------------------------------------------
(* Bounds and input sets                                                   *)

\* fps of every call site of the application
SceneFps == 60

\* resolution of the modelled durations: half a frame at SceneFps
TicksPerSec == 2 * SceneFps

\* frame rates the pure functions are exercised with
FpsSet == {SceneFps \div 2, SceneFps}

MaxComps == 2        \* components per sampled action
MaxCompTicks == 4    \* longest component, in ticks
MaxOffset == 3       \* largest |x_offset|, |y_offset| of a sampled component
MaxSlots == 2        \* scheduled actions per scene actor
MaxFrames == 4       \* largest n_frames of a call

None == <<>>
Some(v) == <<v>>
NoneIdx == -1

NoneSprite == [name |-> "None", w |-> 0, h |-> 0]
SpriteA == [name |-> "A", w |-> 2, h |-> 2]
SpriteB == [name |-> "B", w |-> 3, h |-> 1]
Sprites == {SpriteA, SpriteB}

----------------------------------------------------------------------------
(* Helpers: Python and numpy primitives                                    *)

\* int(a / b) for b > 0: truncation toward zero
Trunc(a, b) == IF a >= 0 THEN a \div b ELSE -((-a) \div b)

\* ceil(a / b) for a >= 0, b > 0
Ceil(a, b) == (a + b - 1) \div b

Max(a, b) == IF a >= b THEN a ELSE b

\* int(duration_sec * fps) rounded up instead of down
IntFrames_ceil(d, fps) == Ceil(d * fps, TicksPerSec)

\* int(duration_sec * fps) for a duration of d ticks
IntFrames(d, fps) == Trunc(d * fps, TicksPerSec)

\* [v] * n
Repeat(v, n) == [i \in 1..n |-> v]

\* s[a:b] of Python for 0 <= a <= b (the slice is clipped to the sequence)
Slice(s, a, b) ==
    LET hi == IF b > Len(s) THEN Len(s) ELSE b
    IN  IF a >= hi THEN <<>> ELSE [i \in 1..(hi - a) |-> s[a + i]]

RECURSIVE SeqSum(_)
SeqSum(s) == IF Len(s) = 0 THEN 0 ELSE s[1] + SeqSum(Tail(s))

\* a running sum that leaves out the element it stands at
cumsum_exclusive(s) == [i \in 1..Len(s) |-> SeqSum(SubSeq(s, 1, i - 1))]

\* np.cumsum
cumsum(s) == [i \in 1..Len(s) |-> SeqSum(SubSeq(s, 1, i))]

\* np.concatenate / list.extend over a list of sequences
RECURSIVE Flatten(_)
Flatten(ss) == IF Len(ss) = 0 THEN <<>> ELSE ss[1] \o Flatten(Tail(ss))

\* np.concatenate([arr] * n) for n >= 1, list * n for n >= 0
Tile(s, n) == [i \in 1..(Len(s) * n) |-> s[((i - 1) % Len(s)) + 1]]

\* the nodes spaced by stop / num instead of stop / (num - 1)
linspace_int_wrong_div(stop, num) ==
    [i \in 1..num |-> IF num = 1 THEN 0 ELSE Trunc(stop * (i - 1), num)]

\* the nodes of a track that stays at 0 and jumps to stop at the end
linspace_int_last_jump(stop, num) ==
    [i \in 1..num |-> IF num = 1 THEN 0 ELSE IF i = num THEN stop ELSE 0]

\* np.linspace(0, stop, num).astype(int) for num >= 1: num evenly spaced
\* nodes from 0 to stop, the last one set to stop exactly, each truncated
linspace_int(stop, num) ==
    [i \in 1..num |->
        IF num = 1 THEN 0
        ELSE IF i = num THEN stop
        ELSE Trunc(stop * (i - 1), num - 1)]

\* np.diff
diff(s) == [i \in 1..(Len(s) - 1) |-> s[i + 1] - s[i]]

----------------------------------------------------------------------------
(* get_action_frames (anims.py 27-68)                                      *)

\* n_comp_frames rounded up instead of down
n_comp_frames_ceil(comp, fps) == Ceil(comp.duration_sec * fps, TicksPerSec)

\* n_comp_frames of one component
n_comp_frames(comp, fps) == IntFrames(comp.duration_sec, fps)

comp_dxs(comp, fps) == diff(linspace_int(comp.x_offset, n_comp_frames(comp, fps) + 1))
comp_dys(comp, fps) == diff(linspace_int(comp.y_offset, n_comp_frames(comp, fps) + 1))

get_action_frames(action, fps) ==
    LET comps == action.components
    IN  IF Len(comps) = 0
        THEN [dx |-> <<>>, dy |-> <<>>, sprites |-> <<>>]
        ELSE [dx |-> Flatten([c \in 1..Len(comps) |-> comp_dxs(comps[c], fps)]),
              dy |-> Flatten([c \in 1..Len(comps) |-> comp_dys(comps[c], fps)]),
              sprites |-> Flatten([c \in 1..Len(comps) |->
                             Repeat(comps[c].sprite, n_comp_frames(comps[c], fps))])]

----------------------------------------------------------------------------
(* get_scene_actor_frames (anims.py 71-160)                                *)

\* a Python dict with no keys
EmptyDict == [k \in {} |-> 0]

\* the locals of get_scene_actor_frames before the loop (lines 89-95); i is
\* the number of scheduled actions the for loop has taken, stopped says that
\* the loop has executed its break
SchedLocals0 ==
    [i |-> 0, curr_frame |-> 0, curr_time |-> 0,
     dx |-> <<>>, dy |-> <<>>, sprites |-> <<>>,
     action_dict |-> EmptyDict, err |-> "none", stopped |-> FALSE]

\* the cache look-up of lines 104-107, keyed by the action's name
cached_frames(w, sched, fps) ==
    IF sched.action.name \in DOMAIN w.action_dict
    THEN w.action_dict
    ELSE (sched.action.name :> get_action_frames(sched.action, fps)) @@ w.action_dict

\* a loop that never breaks
sched_break_never(w, n_frames) == FALSE

\* the test of line 100, before anything of the slot is read
sched_break(w, n_frames) == w.curr_frame >= n_frames

\* the sprites of a slot, were is_visible not looked at
sched_sprites_shown(sched, action_data, n_action_cycles, lo, hi) ==
    Slice(Tile(action_data.sprites, n_action_cycles), lo, hi)

\* the sprites of a slot, lines 127-133: the tiled sprites between the
\* offset lo and hi = lo + n_action_frames, or as many None
sched_sprites(sched, action_data, n_action_cycles, lo, hi) ==
    IF sched.is_visible
    THEN Slice(Tile(action_data.sprites, n_action_cycles), lo, hi)
    ELSE Repeat(NoneSprite, hi - lo)

\* one iteration of the for loop of lines 98-137
sched_step(w, sched, n_frames, fps) ==
    IF sched_break(w, n_frames)
    THEN [w EXCEPT !.stopped = TRUE]
    ELSE
      LET action_dict == cached_frames(w, sched, fps)
          action_data == action_dict[sched.action.name]
          action_final_frame == IntFrames(w.curr_time + sched.duration_sec, fps)
          n_action_frames == action_final_frame - w.curr_frame
          n_offset_frames == IntFrames(sched.start_offset_sec, fps)
          track_len == Len(action_data.dx)
          w1 == [w EXCEPT !.i = @ + 1, !.action_dict = action_dict]
      IN  IF track_len = 0
          THEN [w1 EXCEPT !.err = "ZeroDivisionError"]
          ELSE
            LET n_action_cycles == Ceil(n_offset_frames + n_action_frames, track_len)
                lo == n_offset_frames
                hi == n_offset_frames + n_action_frames
            IN  IF n_action_cycles = 0
                THEN \* np.concatenate of an empty list of arrays
                     [w1 EXCEPT !.err = "ValueError"]
                ELSE [w1 EXCEPT
                        !.dx = Append(@, Slice(Tile(action_data.dx, n_action_cycles), lo, hi)),
                        !.dy = Append(@, Slice(Tile(action_data.dy, n_action_cycles), lo, hi)),
                        !.sprites = @ \o sched_sprites(sched, action_data,
                                                        n_action_cycles, lo, hi),
                        !.curr_frame = @ + n_action_frames,
                        !.curr_time = @ + sched.duration_sec]

\* the for loop is over: the list is exhausted, the break ran, or it raised
sched_loop_over(w, scene_actor) ==
    \/ w.err # "none"
    \/ w.stopped
    \/ w.i = Len(scene_actor.scheduled_actions)

\* the locals after the whole for loop
RECURSIVE sched_walk(_, _, _, _)
sched_walk(w, scene_actor, n_frames, fps) ==
    IF sched_loop_over(w, scene_actor)
    THEN w
    ELSE sched_walk(sched_step(w, scene_actor.scheduled_actions[w.i + 1], n_frames, fps),
                    scene_actor, n_frames, fps)

\* n_missing of line 151
sched_n_missing(w, n_frames) == Max(n_frames - Len(w.dx), 0)

SchedRaised(e) == [err |-> e, x |-> <<>>, y |-> <<>>, sprites |-> <<>>]

\* lines 139-160, from the locals the loop left
sched_return(w, scene_actor, n_frames) ==
    IF w.err # "none"
    THEN SchedRaised(w.err)
    ELSE IF Len(w.dx) = 0
    THEN [err |-> "none",
          sprites |-> Repeat(NoneSprite, n_frames),
          x |-> Repeat(scene_actor.start_x, n_frames),
          y |-> Repeat(scene_actor.start_y, n_frames)]
    ELSE
      LET cx == cumsum(Flatten(w.dx))
          cy == cumsum(Flatten(w.dy))
          x == [i \in 1..Len(cx) |-> cx[i] + scene_actor.start_x]
          y == [i \in 1..Len(cy) |-> cy[i] + scene_actor.start_y]
          n_missing == sched_n_missing(w, n_frames)
      IN  IF Len(x) = 0
          THEN \* x[-1] of an empty array
               SchedRaised("IndexError")
          ELSE [err |-> "none",
                sprites |-> Slice(w.sprites \o Repeat(w.sprites[Len(w.sprites)], n_missing),
                                  0, n_frames),
                x |-> Slice(x \o Repeat(x[Len(x)], n_missing), 0, n_frames),
                y |-> Slice(y \o Repeat(y[Len(y)], n_missing), 0, n_frames)]

get_scene_actor_frames(scene_actor, n_frames, fps) ==
    sched_return(sched_walk(SchedLocals0, scene_actor, n_frames, fps),
                 scene_actor, n_frames)

----------------------------------------------------------------------------
(* get_camera_pos (anims.py 163-237)                                       *)

\* the locals of get_camera_pos before the loop (lines 183-189); i is the
\* number of moves the for loop has taken
CamLocals0(camera) ==
    [i |-> 0, curr_frame |-> 0, curr_time |-> 0,
     x |-> camera.start_x, y |-> camera.start_y,
     x_list |-> <<>>, y_list |-> <<>>, err |-> "none", stopped |-> FALSE]

\* s + v of a numpy array and a scalar
Shift(s, v) == [i \in 1..Len(s) |-> s[i] + v]

\* the samples of a move that follows no actor (lines 200-201)
free_move(stop, n_move_frames, start) ==
    Shift(linspace_int(stop, n_move_frames + 1), start)

\* the samples of a move that follows an actor (lines 205-206)
linked_move(track, curr_frame, n_move_frames) ==
    Slice(track, curr_frame, curr_frame + n_move_frames)

\* an anchor that no move carries along
next_anchor_kept(anchor, samples, n_move_frames) == anchor

\* the camera position the next move starts from, lines 211-213: the last
\* sample of a move that spans frames, the old position otherwise
next_anchor(anchor, samples, n_move_frames) ==
    IF n_move_frames # 0 THEN samples[Len(samples)] ELSE anchor

\* one iteration of the for loop of lines 192-216; actors_frame_info is
\* keyed by str(sa), which spells out the whole content of the scene actor
cam_step(w, move, actors_frame_info, n_frames, fps) ==
    IF w.curr_frame >= n_frames
    THEN [w EXCEPT !.stopped = TRUE]
    ELSE
      LET n_move_frames == IntFrames(move.duration_sec + w.curr_time, fps) - w.curr_frame
          w1 == [w EXCEPT !.i = @ + 1]
      IN  IF move.linked_sa # None /\ move.linked_sa[1] \notin DOMAIN actors_frame_info
          THEN [w1 EXCEPT !.err = "KeyError"]
          ELSE
            LET move_x == IF move.linked_sa = None
                          THEN free_move(move.x, n_move_frames, w.x)
                          ELSE linked_move(actors_frame_info[move.linked_sa[1]].x,
                                           w.curr_frame, n_move_frames)
                move_y == IF move.linked_sa = None
                          THEN free_move(move.y, n_move_frames, w.y)
                          ELSE linked_move(actors_frame_info[move.linked_sa[1]].y,
                                           w.curr_frame, n_move_frames)
                w2 == [w1 EXCEPT !.x_list = Append(@, move_x),
                                 !.y_list = Append(@, move_y)]
            IN  IF n_move_frames # 0 /\ Len(move_x) = 0
                THEN \* move_x[-1] of an empty array
                     [w2 EXCEPT !.err = "IndexError"]
                ELSE [w2 EXCEPT
                        !.x = next_anchor(@, move_x, n_move_frames),
                        !.y = next_anchor(@, move_y, n_move_frames),
                        !.curr_frame = @ + n_move_frames,
                        !.curr_time = @ + move.duration_sec]

\* the for loop is over: the list is exhausted, the break ran, or it raised
cam_loop_over(w, camera) ==
    \/ w.err # "none"
    \/ w.stopped
    \/ w.i = Len(camera.moves)

\* the locals after the whole for loop
RECURSIVE cam_walk(_, _, _, _, _)
cam_walk(w, camera, actors_frame_info, n_frames, fps) ==
    IF cam_loop_over(w, camera)
    THEN w
    ELSE cam_walk(cam_step(w, camera.moves[w.i + 1], actors_frame_info, n_frames, fps),
                  camera, actors_frame_info, n_frames, fps)

\* lines 218-237, from the locals the loop left
cam_return(w, n_frames) ==
    IF w.err # "none"
    THEN [err |-> w.err, x |-> <<>>, y |-> <<>>]
    ELSE IF Len(w.x_list) = 0 \/ Len(Flatten(w.x_list)) = 0
    THEN [err |-> "none", x |-> Repeat(w.x, n_frames), y |-> Repeat(w.y, n_frames)]
    ELSE
      LET cam_x == Flatten(w.x_list)
          cam_y == Flatten(w.y_list)
          n_missing == Max(n_frames - Len(cam_x), 0)
      IN  [err |-> "none",
           x |-> cam_x \o Repeat(cam_x[Len(cam_x)], n_missing),
           y |-> cam_y \o Repeat(cam_y[Len(cam_y)], n_missing)]

get_camera_pos(camera, actors_frame_info, n_frames, fps) ==
    cam_return(cam_walk(CamLocals0(camera), camera, actors_frame_info, n_frames, fps),
               n_frames)

----------------------------------------------------------------------------
(* compose_frames (anims.py 240-325)                                       *)

\* the actors taken in the order of the list
NotReversed(s) == s

\* the window of one axis without the lower clamp of lines 301 and 314
crop_axis_no_floor(cam_w, bg_w, cam_x) ==
    IF cam_w >= bg_w
    THEN [lo |-> 0, hi |-> bg_w]
    ELSE
      LET cam_l == cam_x - (cam_w \div 2)
          cam_r == cam_l + cam_w
      IN  IF cam_r > bg_w
          THEN [lo |-> cam_l - (cam_r - bg_w), hi |-> bg_w]
          ELSE [lo |-> cam_l, hi |-> cam_r]

\* reversed(actors)
Reversed(s) == [i \in 1..Len(s) |-> s[Len(s) + 1 - i]]

\* len(a[lo:hi]) for an axis of n entries, negative bounds counted from the end
slice_len(lo, hi, n) ==
    LET from == IF lo < 0 THEN Max(n + lo, 0) ELSE IF lo > n THEN n ELSE lo
        to == IF hi < 0 THEN Max(n + hi, 0) ELSE IF hi > n THEN n ELSE hi
    IN  Max(to - from, 0)

\* lines 295-306 without the branch that slides the window back inside
crop_axis_no_slide(cam_w, bg_w, cam_x) ==
    IF cam_w >= bg_w
    THEN [lo |-> 0, hi |-> bg_w]
    ELSE [lo |-> Max(cam_x - (cam_w \div 2), 0),
          hi |-> Max(cam_x - (cam_w \div 2), 0) + cam_w]

\* the window of one axis, lines 295-306 (x) and 308-319 (y): cam_w is the
\* camera extent, bg_w the background extent, cam_x the requested centre in
\* image coordinates
crop_axis(cam_w, bg_w, cam_x) ==
    IF cam_w >= bg_w
    THEN [lo |-> 0, hi |-> bg_w]
    ELSE
      LET cam_l == Max(cam_x - (cam_w \div 2), 0)
          cam_r == cam_l + cam_w
      IN  IF cam_r > bg_w
          THEN [lo |-> cam_l - (cam_r - bg_w), hi |-> bg_w]
          ELSE [lo |-> cam_l, hi |-> cam_r]

\* where line 291 pastes the sprite of one actor at frame i (0-based):
\* horizontally centred on x, its top edge at y, y pointing up
paste_of(info, i, x0, y0) ==
    LET sprite == info.sprites[i + 1]
    IN  [sprite |-> sprite,
         left |-> x0 + Trunc(2 * info.x[i + 1] - sprite.w, 2),
         top |-> y0 - info.y[i + 1]]

\* the tracks of an actor stop before frame i
track_short(info, i) ==
    \/ i >= Len(info.sprites)
    \/ info.sprites[i + 1] # NoneSprite /\ (i >= Len(info.x) \/ i >= Len(info.y))

\* one iteration of the loop of lines 277-322: frame i (0-based) as the list
\* of pastes over the background, bottom first, and the cropped window
compose_frame(i, background, actors_frame_info, cam_pos, scene_actors, camera) ==
    LET x0 == background.w \div 2
        y0 == background.h \div 2
        rev == Reversed(scene_actors)
        shown == SelectSeq(rev, LAMBDA sa :
                    actors_frame_info[sa].sprites[i + 1] # NoneSprite)
    IN  IF \E k \in 1..Len(rev) : rev[k] \notin DOMAIN actors_frame_info
        THEN [err |-> "KeyError"]
        ELSE IF \E k \in 1..Len(rev) : track_short(actors_frame_info[rev[k]], i)
        THEN [err |-> "IndexError"]
        ELSE IF \/ camera.width < background.w /\ i >= Len(cam_pos.x)
                \/ camera.height < background.h /\ i >= Len(cam_pos.y)
        THEN [err |-> "IndexError"]
        ELSE
          LET h == crop_axis(camera.width, background.w,
                             IF camera.width < background.w
                             THEN x0 + cam_pos.x[i + 1] ELSE 0)
              v == crop_axis(camera.height, background.h,
                             IF camera.height < background.h
                             THEN y0 - cam_pos.y[i + 1] ELSE 0)
          IN  [err |-> "none",
               pastes |-> [k \in 1..Len(shown) |->
                              paste_of(actors_frame_info[shown[k]], i, x0, y0)],
               cam_l |-> h.lo, cam_r |-> h.hi, cam_t |-> v.lo, cam_b |-> v.hi,
               width |-> slice_len(h.lo, h.hi, background.w),
               height |-> slice_len(v.lo, v.hi, background.h)]

\* the locals of compose_frames before the loop (line 271)
ComposeLocals0 == [i |-> 0, frames |-> <<>>, err |-> "none"]

\* the loop body applied to the locals
compose_step(w, background, actors_frame_info, cam_pos, scene_actors, camera) ==
    LET frame == compose_frame(w.i, background, actors_frame_info, cam_pos,
                               scene_actors, camera)
    IN  IF frame.err # "none"
        THEN [w EXCEPT !.i = @ + 1, !.err = frame.err]
        ELSE [w EXCEPT !.i = @ + 1, !.frames = Append(@, frame)]

compose_loop_over(w, n_frames) == w.err # "none" \/ w.i >= n_frames

\* line 324, or the exception leaving the function
compose_return(w) ==
    IF w.err # "none"
    THEN [err |-> w.err, frames |-> <<>>]
    ELSE [err |-> "none", frames |-> w.frames]

\* the whole function: every frame in turn, up to the first that raises
compose_frames(background, actors_frame_info, cam_pos, scene_actors, camera, n_frames) ==
    LET made == [i \in 1..n_frames |->
                    compose_frame(i - 1, background, actors_frame_info, cam_pos,
                                  scene_actors, camera)]
        bad == {i \in 1..n_frames : made[i].err # "none"}
    IN  IF bad = {}
        THEN compose_return([ComposeLocals0 EXCEPT !.i = n_frames, !.frames = made])
        ELSE compose_return([ComposeLocals0 EXCEPT
                !.err = made[CHOOSE i \in bad : \A j \in bad : i <= j].err])

----------------------------------------------------------------------------
(* The application state right after AnimationEditorApp.__init__           *)

AppInit ==
    /\ actors = <<>>
    /\ actors_save_status = <<>>
    /\ curr_actor_idx = NoneIdx
    /\ curr_action_idx = NoneIdx
    /\ curr_comp_idx = NoneIdx
    /\ scenes = <<>>
    /\ scenes_save_status = <<>>
    /\ curr_scene_idx = NoneIdx
    /\ curr_cam_move_idx = NoneIdx
    /\ curr_sa_idx = NoneIdx
    /\ curr_sched_idx = NoneIdx
    /\ popups = 0
    /\ files = 0
    /\ notices = 0
    /\ called = {}

NoRet == [err |-> "pending"]
NoLocals == [i |-> 0]

----------------------------------------------------------------------------
(* Specification SpecSample: get_action_frames on bounded actions          *)

SeqsUpTo(S, n) == UNION {[1..k -> S] : k \in 0..n}

SampleComps ==
    [sprite : Sprites,
     duration_sec : 0..MaxCompTicks,
     x_offset : {-MaxOffset, 0, MaxOffset - 1},
     y_offset : {0, -(MaxOffset - 1)}]

SampleActions == [name : {"Walk"}, components : SeqsUpTo(SampleComps, MaxComps)]

InitSample ==
    /\ AppInit
    /\ pc = "call"
    /\ args \in [action : SampleActions, fps : FpsSet]
    /\ locals = NoLocals
    /\ ret = NoRet

CallGetActionFrames ==
    /\ pc = "call"
    /\ pc' = "return"
    /\ ret' = get_action_frames(args.action, args.fps)
    /\ UNCHANGED <<args, locals, app_vars>>

NextSample == CallGetActionFrames

SpecSample == InitSample /\ [][NextSample]_vars

----------------------------------------------------------------------------
(* Specification SpecSched: get_scene_actor_frames on bounded schedules    *)

\* an action of three frames at 60 fps and one frame at 30 fps
WalkAction ==
    [name |-> "Walk",
     components |-> <<[sprite |-> SpriteA, duration_sec |-> 4, x_offset |-> 3, y_offset |-> -1],
                      [sprite |-> SpriteB, duration_sec |-> 2, x_offset |-> -2, y_offset |-> 0]>>]

\* an action whose only component is shorter than a frame at every fps of FpsSet
BlinkAction ==
    [name |-> "Blink",
     components |-> <<[sprite |-> SpriteB, duration_sec |-> 1, x_offset |-> 1, y_offset |-> 0]>>]

\* an action as add_action leaves it: no component yet
EmptyAction == [name |-> "Empty", components |-> <<>>]

\* the action save_sched builds for an idle slot (app.py 1828)
IdleAction(sprite) ==
    [name |-> "Idle",
     components |-> <<[sprite |-> sprite, duration_sec |-> TicksPerSec,
                       x_offset |-> 0, y_offset |-> 0]>>]

HeroActor == [name |-> "Hero", actions |-> <<WalkAction, BlinkAction, EmptyAction>>]

NaturalTicks(action) ==
    SeqSum([c \in 1..Len(action.components) |-> action.components[c].duration_sec])

\* slot lengths: none, a frame and a half, three times the walk
SlotTicks == {0, 3, 3 * NaturalTicks(WalkAction)}
\* phase shifts: none, one frame at 60 fps
OffsetTicks == {0, 2}

SchedSlots ==
    [action : {WalkAction}, duration_sec : SlotTicks,
     start_offset_sec : OffsetTicks, is_visible : {TRUE}]
    \cup
    [action : {WalkAction, BlinkAction, EmptyAction, IdleAction(SpriteA), IdleAction(SpriteB)},
     duration_sec : {3}, start_offset_sec : {0}, is_visible : BOOLEAN]

SchedSceneActors ==
    [actor : {HeroActor}, start_x : {5}, start_y : {-4},
     scheduled_actions : SeqsUpTo(SchedSlots, MaxSlots)]

\* one component of x_offset = 60 over one second
GlideAction ==
    [name |-> "Glide",
     components |-> <<[sprite |-> SpriteA, duration_sec |-> TicksPerSec,
                       x_offset |-> 60, y_offset |-> 0]>>]

\* an actor that glides for the one second its scene lasts at 10 fps
GlideCall ==
    [scene_actor |-> [actor |-> [name |-> "Glider", actions |-> <<GlideAction>>],
                      start_x |-> 5, start_y |-> -4,
                      scheduled_actions |-> <<[action |-> GlideAction,
                                               duration_sec |-> TicksPerSec,
                                               start_offset_sec |-> 0,
                                               is_visible |-> TRUE]>>],
     n_frames |-> 10, fps |-> 10]

InitSched ==
    /\ AppInit
    /\ pc = "call"
    /\ \/ args \in [scene_actor : SchedSceneActors, n_frames : 0..MaxFrames, fps : FpsSet]
       \/ args = GlideCall
    /\ locals = SchedLocals0
    /\ ret = NoRet

\* one turn of the for loop
SchedIterate ==
    /\ pc = "call"
    /\ "scene_actor" \in DOMAIN args
    /\ ~sched_loop_over(locals, args.scene_actor)
    /\ locals' = sched_step(locals, args.scene_actor.scheduled_actions[locals.i + 1],
                            args.n_frames, args.fps)
    /\ UNCHANGED <<pc, args, ret, app_vars>>

\* the code after the loop, or the exception leaving the function
SchedReturn ==
    /\ pc = "call"
    /\ "scene_actor" \in DOMAIN args
    /\ sched_loop_over(locals, args.scene_actor)
    /\ pc' = "return"
    /\ ret' = sched_return(locals, args.scene_actor, args.n_frames)
    /\ UNCHANGED <<args, locals, app_vars>>

NextSched == SchedIterate \/ SchedReturn

SpecSched == InitSched /\ [][NextSched]_vars

----------------------------------------------------------------------------
(* Specification SpecCam: get_camera_pos on bounded cameras                *)

MaxMoves == 2        \* camera moves per camera

Range(s) == {s[i] : i \in 1..Len(s)}

\* the dict get_scene_frames fills before it resolves the camera
\* (app.py 1207-1209), keyed by the content of each scene actor
actor_frames(scene_actors, n_frames, fps) ==
    [sa \in Range(scene_actors) |-> get_scene_actor_frames(sa, n_frames, fps)]

\* an actor that walks for the whole scene, and one that never moves
WalkerSA ==
    [actor |-> HeroActor, start_x |-> 5, start_y |-> -4,
     scheduled_actions |-> <<[action |-> WalkAction,
                              duration_sec |-> 3 * NaturalTicks(WalkAction),
                              start_offset_sec |-> 0, is_visible |-> TRUE]>>]

StanderSA ==
    [actor |-> HeroActor, start_x |-> -2, start_y |-> 7, scheduled_actions |-> <<>>]

CamActors == <<WalkerSA, StanderSA>>

\* move lengths: none, a frame and a half, two frames (at 60 fps)
CamTicks == {0, 3, 4}

CamMoves ==
    [linked_sa : {None}, x : {-3, 4}, y : {2}, duration_sec : CamTicks]
    \cup
    [linked_sa : {Some(sa) : sa \in Range(CamActors)}, x : {0}, y : {0},
     duration_sec : CamTicks]

Cameras ==
    [width : {4}, height : {4}, start_x : {1}, start_y : {-1},
     moves : SeqsUpTo(CamMoves, MaxMoves)]

\* the actor tracks handed over are the ones the scheduler returned normally
InitCam ==
    /\ AppInit
    /\ pc = "call"
    /\ \E camera \in Cameras, n_frames \in 0..MaxFrames, fps \in FpsSet :
          /\ args = [camera |-> camera,
                     actors_frame_info |-> actor_frames(CamActors, n_frames, fps),
                     n_frames |-> n_frames, fps |-> fps]
          /\ locals = CamLocals0(camera)
    /\ \A sa \in DOMAIN args.actors_frame_info :
          /\ args.actors_frame_info[sa].err = "none"
          /\ Len(args.actors_frame_info[sa].x) = args.n_frames
          /\ Len(args.actors_frame_info[sa].y) = args.n_frames
    /\ ret = NoRet

\* one turn of the for loop
CamIterate ==
    /\ pc = "call"
    /\ "camera" \in DOMAIN args
    /\ ~cam_loop_over(locals, args.camera)
    /\ locals' = cam_step(locals, args.camera.moves[locals.i + 1],
                          args.actors_frame_info, args.n_frames, args.fps)
    /\ UNCHANGED <<pc, args, ret, app_vars>>

\* the code after the loop
CamReturn ==
    /\ pc = "call"
    /\ "camera" \in DOMAIN args
    /\ cam_loop_over(locals, args.camera)
    /\ pc' = "return"
    /\ ret' = cam_return(locals, args.n_frames)
    /\ UNCHANGED <<args, locals, app_vars>>

NextCam == CamIterate \/ CamReturn

SpecCam == InitCam /\ [][NextCam]_vars

----------------------------------------------------------------------------
(* Specification SpecWalks: the two cursor walks, get_scene_actor_frames   *)
(* and get_camera_pos, each on the arguments of its own specification      *)

InitWalks == InitSched \/ InitCam

NextWalks == SchedIterate \/ SchedReturn \/ CamIterate \/ CamReturn

SpecWalks == InitWalks /\ [][NextWalks]_vars

----------------------------------------------------------------------------
(* Specification SpecCompose: compose_frames on bounded backgrounds        *)

MaxBg == 4           \* largest background side; cameras go one beyond

\* an image file has at least one pixel each way
Backgrounds == [w : 1..MaxBg, h : 1..MaxBg]

\* camera extents are positive (update_cam_settings reads them from
\* UnsignedIntEntryFrame), smaller and larger than the background
ComposeCameras ==
    [width : 1..(MaxBg + 1), height : 1..(MaxBg + 1),
     start_x : {0}, start_y : {0}, moves : {<<>>}]

\* camera tracks of two frames, mirrored about the centre of the scene; the
\* vertical centre is far out, next to the centre, or on it
ComposeCamPos ==
    {[x |-> <<cx, -cx>>, y |-> <<cy, -cy>>] :
        cx \in -MaxBg..MaxBg, cy \in {-MaxBg, -1, 0, 1, MaxBg}}

\* three actors around the centre of the scene: a walker in front, one
\* without schedule that never shows, and one standing idle at the back
\* whose sprite the walker's overlaps
NearSA == [WalkerSA EXCEPT !.start_x = 0, !.start_y = 0]

IdlerSA ==
    [actor |-> HeroActor, start_x |-> 1, start_y |-> 0,
     scheduled_actions |-> <<[action |-> IdleAction(SpriteB),
                              duration_sec |-> TicksPerSec,
                              start_offset_sec |-> 0, is_visible |-> TRUE]>>]

ComposeActors == <<NearSA, StanderSA, IdlerSA>>

\* the tracks of the three actors, as get_scene_frames computes them before
\* it calls compose_frames, for as many frames as the camera tracks have
ComposeFrameInfo ==
    actor_frames(ComposeActors, Len((CHOOSE cam_pos \in ComposeCamPos : TRUE).x), SceneFps)

InitCompose ==
    /\ AppInit
    /\ pc = "call"
    /\ \E background \in Backgrounds, camera \in ComposeCameras,
          cam_pos \in ComposeCamPos :
          args = [background |-> background,
                  actors_frame_info |-> ComposeFrameInfo,
                  cam_pos |-> cam_pos,
                  actors |-> ComposeActors,
                  camera |-> camera,
                  n_frames |-> Len(cam_pos.x)]
    /\ locals = ComposeLocals0
    /\ ret = NoRet

\* one turn of the loop over the frames
ComposeIterate ==
    /\ pc = "call"
    /\ "background" \in DOMAIN args
    /\ ~compose_loop_over(locals, args.n_frames)
    /\ locals' = compose_step(locals, args.background, args.actors_frame_info,
                              args.cam_pos, args.actors, args.camera)
    /\ UNCHANGED <<pc, args, ret, app_vars>>

ComposeReturn ==
    /\ pc = "call"
    /\ "background" \in DOMAIN args
    /\ compose_loop_over(locals, args.n_frames)
    /\ pc' = "return"
    /\ ret' = compose_return(locals)
    /\ UNCHANGED <<args, locals, app_vars>>

NextCompose == ComposeIterate \/ ComposeReturn

SpecCompose == InitCompose /\ [][NextCompose]_vars

----------------------------------------------------------------------------
(* The data model (data_models/scene.py, data_models/actor.py).  Objects   *)
(* are modelled by their content: two references to one object and two     *)
(* equal copies are the same value.                                        *)

\* d.get(key, default) on the dict of a JSON file
Get(d, key, default) == IF key \in DOMAIN d THEN d[key] ELSE default

\* Camera()
DefaultCamera ==
    [width |-> 816, height |-> 624, start_x |-> 0, start_y |-> 0, moves |-> <<>>]

\* Scene(name=name)
NewScene(name) ==
    [name |-> name, background |-> None, duration_sec |-> 5 * TicksPerSec,
     actors |-> <<>>, camera |-> DefaultCamera]

ScheduledAction_from_dict(d) ==
    [action |-> d.action,
     duration_sec |-> d.duration_sec,
     start_offset_sec |-> Get(d, "start_offset_sec", 0),
     is_visible |-> Get(d, "is_visible", TRUE)]

SceneActor_from_dict(d) ==
    LET scheds == Get(d, "scheduled_actions", <<>>)
    IN  [actor |-> d.actor,
         start_x |-> d.start_x,
         start_y |-> d.start_y,
         scheduled_actions |->
            [k \in 1..Len(scheds) |-> ScheduledAction_from_dict(scheds[k])]]

CameraMove_from_dict(d) ==
    LET dict_sa == Get(d, "linked_sa", None)
    IN  [x |-> Get(d, "x", 0),
         y |-> Get(d, "y", 0),
         linked_sa |-> IF dict_sa = None THEN None
                       ELSE Some(SceneActor_from_dict(dict_sa[1])),
         duration_sec |-> Get(d, "duration_sec", TicksPerSec)]

Camera_from_dict(d) ==
    LET moves == Get(d, "moves", <<>>)
    IN  [width |-> Get(d, "width", DefaultCamera.width),
         height |-> Get(d, "height", DefaultCamera.height),
         start_x |-> Get(d, "start_x", 0),
         start_y |-> Get(d, "start_y", 0),
         moves |-> [k \in 1..Len(moves) |-> CameraMove_from_dict(moves[k])]]

\* the loops of lines 442-459 swap equal copies for references and leave
\* the content as it is
Scene_from_dict(d) ==
    LET sas == Get(d, "actors", <<>>)
    IN  [name |-> d.name,
         background |-> Get(d, "background", None),
         duration_sec |-> Get(d, "duration_sec", 5 * TicksPerSec),
         actors |-> [k \in 1..Len(sas) |-> SceneActor_from_dict(sas[k])],
         camera |-> Camera_from_dict(Get(d, "camera", [moves |-> <<>>]))]

----------------------------------------------------------------------------
(* Serialisation of actors (data_models/actor.py).  A sprite is in memory  *)
(* a record of its extents; in a dictionary it is the base64 text of its   *)
(* PNG file, modelled as <<"PNG", width, height, pixels>>, the pixels      *)
(* standing under the name the model gives the picture.  A                 *)
(* direction is None or Some of a member of Direction, a movement speed    *)
(* None or Some of a number.                                               *)

\* class Direction(StrEnum): a member is equal to its string
Direction == {"Left", "Right", "Up", "Down"}

\* sprite.save(buffer, format="PNG") and base64.b64encode, lines 76-79
png_b64encode(sprite) == <<"PNG", sprite.w, sprite.h, sprite.name>>

\* base64.b64decode and Image.open, lines 98 and 101
png_b64decode(data) == [name |-> data[4], w |-> data[2], h |-> data[3]]

\* ActionComponent.to_dict
ActionComponent_to_dict(self) ==
    [sprite |-> png_b64encode(self.sprite),
     duration_sec |-> self.duration_sec,
     x_offset |-> self.x_offset,
     y_offset |-> self.y_offset,
     movement_speed |-> self.movement_speed,
     direction |-> self.direction]

\* ActionComponent.from_dict with the direction left out
ActionComponent_from_dict_no_direction(d) ==
    [sprite |-> png_b64decode(d.sprite),
     duration_sec |-> d.duration_sec,
     x_offset |-> d.x_offset,
     y_offset |-> d.y_offset,
     movement_speed |-> Get(d, "movement_speed", None),
     direction |-> None]

\* ActionComponent.from_dict, for a dictionary whose direction is None or
\* names a member (Direction_raises tells the others)
ActionComponent_from_dict(d) ==
    [sprite |-> png_b64decode(d.sprite),
     duration_sec |-> d.duration_sec,
     x_offset |-> d.x_offset,
     y_offset |-> d.y_offset,
     movement_speed |-> Get(d, "movement_speed", None),
     direction |-> Get(d, "direction", None)]

\* Direction(direction_str) of line 106 raises ValueError
Direction_raises(d) ==
    LET direction_str == Get(d, "direction", None)
    IN  direction_str # None /\ direction_str[1] \notin Direction

\* Action.to_dict
Action_to_dict(self) ==
    [name |-> self.name,
     components |-> [c \in 1..Len(self.components) |->
                        ActionComponent_to_dict(self.components[c])]]

\* Action.from_dict
Action_from_dict(d) ==
    LET comps == Get(d, "components", <<>>)
    IN  [name |-> d.name,
         components |-> [c \in 1..Len(comps) |-> ActionComponent_from_dict(comps[c])]]

\* Actor.to_dict
Actor_to_dict(self) ==
    [name |-> self.name,
     actions |-> [k \in 1..Len(self.actions) |-> Action_to_dict(self.actions[k])]]

\* Actor.from_dict: the actor, or the ValueError of a direction no member has
Actor_from_dict(d) ==
    LET acts == Get(d, "actions", <<>>)
    IN  IF \E k \in 1..Len(acts) :
              \E c \in 1..Len(Get(acts[k], "components", <<>>)) :
                  Direction_raises(acts[k].components[c])
        THEN [err |-> "ValueError"]
        ELSE [err |-> "none",
              actor |-> [name |-> d.name,
                         actions |-> [k \in 1..Len(acts) |-> Action_from_dict(acts[k])]]]

----------------------------------------------------------------------------
(* get_scene_frames (app.py 1174-1218)                                     *)

\* the application object, as the methods see it
Self ==
    [actors |-> actors, actors_save_status |-> actors_save_status,
     curr_actor_idx |-> curr_actor_idx, curr_action_idx |-> curr_action_idx,
     curr_comp_idx |-> curr_comp_idx,
     scenes |-> scenes, scenes_save_status |-> scenes_save_status,
     curr_scene_idx |-> curr_scene_idx, curr_cam_move_idx |-> curr_cam_move_idx,
     curr_sa_idx |-> curr_sa_idx, curr_sched_idx |-> curr_sched_idx]

\* the test of line 1195, taken to be never true
background_missing_never(scene) == FALSE

\* the test of line 1195
background_missing(scene) == scene.background = None

\* the exception of the first scene actor whose scheduling raises
first_raise(scene_actors, info) ==
    LET bad == {k \in 1..Len(scene_actors) : info[scene_actors[k]].err # "none"}
    IN  IF bad = {} THEN "none"
        ELSE info[scene_actors[CHOOSE k \in bad : \A j \in bad : k <= j]].err

\* the value of a singleton set
Only(S) == CHOOSE v \in S : TRUE

\* the background if line 292 pasted on the image itself instead of a copy
background_painted(background, frames) ==
    LET pastes == Flatten([k \in 1..Len(frames) |-> frames[k].pastes])
    IN  IF pastes = <<>> THEN background
        ELSE [w |-> background.w, h |-> background.h, pastes |-> pastes]

\* the background image once compose_frames has returned: line 278 paints
\* every frame on background.copy(), so the pastes of line 292 never reach
\* the image the scene holds
background_after_compose(background, frames) == background

\* lines 1214-1218, once the actor tracks and the camera track are known
render_composed(scene, info, cam_pos, n_frames, entered) ==
    IF cam_pos.err # "none"
    THEN [err |-> cam_pos.err, frames |-> <<>>,
          called |-> entered \cup {"get_camera_pos"}]
    ELSE IF scene.background = None
    THEN \* background.size of None, line 273 of anims.py
         [err |-> "AttributeError", frames |-> <<>>,
          called |-> entered \cup {"get_camera_pos", "compose_frames"}]
    ELSE
      LET composed == compose_frames(scene.background[1], info, cam_pos,
                                     scene.actors, scene.camera, n_frames)
      IN  [err |-> composed.err, frames |-> composed.frames,
           called |-> entered \cup {"get_camera_pos", "compose_frames"},
           background |-> Some(background_after_compose(scene.background[1],
                                                        composed.frames))]

\* lines 1211-1218, once the actor tracks are known
render_tracked(scene, info, n_frames, fps) ==
    LET sched_err == first_raise(scene.actors, info)
        entered == IF Len(scene.actors) = 0 THEN {} ELSE {"get_scene_actor_frames"}
    IN  IF sched_err # "none"
        THEN [err |-> sched_err, frames |-> <<>>, called |-> entered]
        ELSE Only({render_composed(scene, info, cam_pos, n_frames, entered) :
                     cam_pos \in {get_camera_pos(scene.camera, info, n_frames, fps)}})

\* lines 1202-1218: the three stages, with the functions entered on the way
render_scene(scene, fps) ==
    LET n_frames == IntFrames(scene.duration_sec, fps)
    IN  Only({render_tracked(scene, info, n_frames, fps) :
                info \in {actor_frames(scene.actors, n_frames, fps)}})

\* the whole method: frames is None or the list of frames, notices counts
\* the message boxes shown, scenes is self.scenes as the call leaves it (the
\* three functions only read the scene; compose_frames is handed the
\* background image itself)
get_scene_frames(self) ==
    IF self.curr_scene_idx = NoneIdx
    THEN [err |-> "none", frames |-> None, called |-> {}, notices |-> 0,
          scenes |-> self.scenes]
    ELSE
      LET scene == self.scenes[self.curr_scene_idx + 1]
      IN  IF background_missing(scene)
          THEN [err |-> "none", frames |-> None, called |-> {}, notices |-> 1,
                scenes |-> self.scenes]
          ELSE
            LET rendered == render_scene(scene, SceneFps)
            IN  [err |-> rendered.err,
                 frames |-> IF rendered.err = "none" THEN Some(rendered.frames) ELSE None,
                 called |-> rendered.called,
                 notices |-> 0,
                 scenes |-> IF "background" \in DOMAIN rendered
                            THEN [self.scenes EXCEPT ![self.curr_scene_idx + 1].background
                                                        = rendered.background]
                            ELSE self.scenes]

----------------------------------------------------------------------------
(* The handlers of AnimationEditorApp (app.py), as functions of the        *)
(* application object.  Only attributes are modelled, not the widgets.     *)

\* list.pop(idx)
Pop(s, idx) == [k \in 1..(Len(s) - 1) |-> IF k <= idx THEN s[k] ELSE s[k + 1]]

\* the first "<prefix> i" no element of names carries (lines 322-325, 1071-1074)
unused_name(prefix, names) ==
    LET free(i) == (prefix \o ToString(i)) \notin names
    IN  prefix \o ToString(CHOOSE i \in 1..(Cardinality(names) + 1) :
                              free(i) /\ \A j \in 1..(i - 1) : ~free(j))

clean_component(self) == [self EXCEPT !.curr_comp_idx = NoneIdx]

clean_action(self) == [clean_component(self) EXCEPT !.curr_action_idx = NoneIdx]

unsaved_scene(self, scene_idx) ==
    [self EXCEPT !.scenes_save_status[scene_idx + 1] = <<FALSE, @[2]>>]

clean_cam_move(self) == [self EXCEPT !.curr_cam_move_idx = NoneIdx]

clean_scheduled_action(self) == [self EXCEPT !.curr_sched_idx = NoneIdx]

clean_scene_actor(self) ==
    [clean_scheduled_action(self) EXCEPT !.curr_sa_idx = NoneIdx]

clean_scene(self) ==
    [clean_scene_actor(clean_cam_move(self)) EXCEPT !.curr_scene_idx = NoneIdx]

set_scene(self, scene_idx) ==
    [(IF self.curr_scene_idx # scene_idx
      THEN clean_cam_move(clean_action(self))
      ELSE self)
        EXCEPT !.curr_scene_idx = scene_idx]

add_scene(self) ==
    LET name == unused_name("Scene ", {self.scenes[k].name : k \in 1..Len(self.scenes)})
    IN  set_scene([self EXCEPT !.scenes = Append(@, NewScene(name)),
                               !.scenes_save_status = Append(@, <<FALSE, None>>)],
                  Len(self.scenes))

\* file_res is None or the pair (path, data) of the file picked
open_scene(self, file_res) ==
    IF file_res = None
    THEN self
    ELSE set_scene([self EXCEPT
                        !.scenes = Append(@, Scene_from_dict(file_res[1].data)),
                        !.scenes_save_status = Append(@, <<TRUE, Some(file_res[1].path)>>)],
                   Len(self.scenes))

\* answer is what askokcancel returns when it is asked
delete_scene(self, answer) ==
    IF self.curr_scene_idx = NoneIdx
    THEN self
    ELSE IF ~self.scenes_save_status[self.curr_scene_idx + 1][1] /\ ~answer
    THEN self
    ELSE clean_scene([self EXCEPT
                        !.scenes = Pop(@, self.curr_scene_idx),
                        !.scenes_save_status = Pop(@, self.curr_scene_idx)])

\* idx is the row selected in the list of scenes
select_scene(self, idx) ==
    IF idx # self.curr_scene_idx THEN set_scene(self, idx) ELSE self

\* img is None or the image open_image_file returned
set_background(self, img) ==
    IF self.curr_scene_idx = NoneIdx \/ img = None
    THEN self
    ELSE unsaved_scene([self EXCEPT
                            !.scenes[self.curr_scene_idx + 1].background = img],
                       self.curr_scene_idx)

set_cam_move(self, move_idx) ==
    IF self.curr_scene_idx = NoneIdx
    THEN self
    ELSE [self EXCEPT !.curr_cam_move_idx = move_idx]

select_camera_move(self, idx) ==
    IF self.curr_scene_idx = NoneIdx \/ idx = self.curr_cam_move_idx
    THEN self
    ELSE set_cam_move(self, idx)

set_scene_actor(self, sa_idx) ==
    IF self.curr_scene_idx = NoneIdx
    THEN self
    ELSE [(IF self.curr_sa_idx # sa_idx THEN clean_scheduled_action(self) ELSE self)
            EXCEPT !.curr_sa_idx = sa_idx]

select_scene_actor(self, idx) ==
    IF self.curr_scene_idx = NoneIdx \/ idx = self.curr_sa_idx
    THEN self
    ELSE set_scene_actor(self, idx)

set_scheduled_action(self, sched_idx) ==
    IF self.curr_scene_idx = NoneIdx \/ self.curr_sa_idx = NoneIdx
    THEN self
    ELSE [self EXCEPT !.curr_sched_idx = sched_idx]

select_scheduled_action(self, idx) ==
    IF \/ self.curr_scene_idx = NoneIdx
       \/ self.curr_sa_idx = NoneIdx
       \/ idx = self.curr_sched_idx
    THEN self
    ELSE set_scheduled_action(self, idx)

----------------------------------------------------------------------------
(* Handlers that edit actors, scene actors and camera moves.  A scene      *)
(* actor holds a reference to the Actor object it was made from, and a     *)
(* linked camera move a reference to its SceneActor object.  Where these   *)
(* handlers run, every actor was made by add_actor, so its name is its     *)
(* own, and every scene actor by add_scene_actor: the scene actors that    *)
(* refer to an Actor object are those whose actor has its content.  A      *)
(* popup is taken to be filled in and saved before anything else happens.  *)

\* list.insert(idx, v) for 0 <= idx <= len
Insert(s, idx, v) ==
    [k \in 1..(Len(s) + 1) |->
        IF k <= idx THEN s[k] ELSE IF k = idx + 1 THEN v ELSE s[k - 1]]

\* list.index(v): the first 0-based position of v
IndexOf(s, v) == (CHOOSE k \in 1..Len(s) : s[k] = v /\ \A j \in 1..(k - 1) : s[j] # v) - 1

unsaved_actor(self, actor_idx) ==
    [self EXCEPT !.actors_save_status[actor_idx + 1] = <<FALSE, @[2]>>]

set_actor(self, actor_idx) ==
    [(IF actor_idx # self.curr_actor_idx THEN clean_action(self) ELSE self)
        EXCEPT !.curr_actor_idx = actor_idx]

set_action(self, action_idx) ==
    IF self.curr_actor_idx = NoneIdx
    THEN self
    ELSE [(IF self.curr_action_idx # action_idx THEN clean_component(self) ELSE self)
            EXCEPT !.curr_action_idx = action_idx]

\* add_actor and _add_or_replace_actor(actor)
add_actor(self) ==
    LET name == unused_name("Actor ", {self.actors[k].name : k \in 1..Len(self.actors)})
    IN  set_actor([self EXCEPT !.actors = Append(@, [name |-> name, actions |-> <<>>]),
                               !.actors_save_status = Append(@, <<FALSE, None>>)],
                  Len(self.actors))

\* a scene actor after the Actor object old has become new in place: the
\* scene actor made from it (line 1579 passes the object itself) shows the
\* change
seen_through(sa, old, new) == IF sa.actor = old THEN [sa EXCEPT !.actor = new] ELSE sa

\* the scenes after an Actor object has been changed in place
after_actor_edit(scenes_list, old, new) ==
    [s \in 1..Len(scenes_list) |->
        [scenes_list[s] EXCEPT
            !.actors = [k \in 1..Len(@) |-> seen_through(@[k], old, new)],
            !.camera.moves = [m \in 1..Len(@) |->
                IF @[m].linked_sa = None THEN @[m]
                ELSE [@[m] EXCEPT !.linked_sa = Some(seen_through(@[1], old, new))]]]]

\* add_action: the new action is appended to the list of the Actor object
add_action(self) ==
    IF self.curr_actor_idx = NoneIdx
    THEN self
    ELSE
      LET actor_idx == self.curr_actor_idx
          actor == self.actors[actor_idx + 1]
          name == unused_name("Action ", {actor.actions[k].name : k \in 1..Len(actor.actions)})
          edited == [actor EXCEPT !.actions = Append(@, [name |-> name, components |-> <<>>])]
      IN  set_action(set_actor(unsaved_actor(
                [self EXCEPT !.actors[actor_idx + 1] = edited,
                             !.scenes = after_actor_edit(@, actor, edited)],
                actor_idx), actor_idx),
              Len(actor.actions))

\* add_scene_actor with add_and_close: actor_name is the name picked in the
\* dropdown; without actors the handler only shows a message
add_scene_actor(self, actor_name, start_x, start_y) ==
    IF self.curr_scene_idx = NoneIdx \/ Len(self.actors) = 0
    THEN self
    ELSE
      LET scene_idx == self.curr_scene_idx
          actor_names == [k \in 1..Len(self.actors) |-> self.actors[k].name]
          sa == [actor |-> self.actors[IndexOf(actor_names, actor_name) + 1],
                 start_x |-> start_x, start_y |-> start_y, scheduled_actions |-> <<>>]
      IN  set_scene_actor(set_scene(unsaved_scene(
                [self EXCEPT !.scenes[scene_idx + 1].actors = Append(@, sa)],
                scene_idx), scene_idx),
              Len(self.scenes[scene_idx + 1].actors))

delete_scene_actor(self) ==
    IF self.curr_scene_idx = NoneIdx \/ self.curr_sa_idx = NoneIdx
    THEN self
    ELSE set_scene(unsaved_scene(clean_scene_actor(
            [self EXCEPT !.scenes[self.curr_scene_idx + 1].actors = Pop(@, self.curr_sa_idx)]),
            self.curr_scene_idx), self.curr_scene_idx)

\* move_scene_actor; set_scene_actor(n_idx, clean=False) keeps curr_sched_idx
move_scene_actor(self, delta) ==
    IF self.curr_scene_idx = NoneIdx \/ self.curr_sa_idx = NoneIdx
    THEN self
    ELSE
      LET scene_idx == self.curr_scene_idx
          sa_idx == self.curr_sa_idx
          sas == self.scenes[scene_idx + 1].actors
          upper == IF sa_idx + delta <= Len(sas) - 1 THEN sa_idx + delta ELSE Len(sas) - 1
          n_idx == Max(0, upper)
      IN  IF n_idx = sa_idx
          THEN self
          ELSE [set_scene(unsaved_scene(
                    [self EXCEPT !.scenes[scene_idx + 1].actors =
                                    Insert(Pop(sas, sa_idx), n_idx, sas[sa_idx + 1])],
                    scene_idx), scene_idx)
                  EXCEPT !.curr_sa_idx = n_idx]

\* add_or_edit_camera_move with save_cam_move: linked is the toggle,
\* actor_name the name picked in the dropdown (None when nothing is picked)
save_cam_move(self, new, linked, actor_name, x, y, duration) ==
    IF self.curr_scene_idx = NoneIdx \/ (~new /\ self.curr_cam_move_idx = NoneIdx)
    THEN self
    ELSE IF linked /\ actor_name = None
    THEN self
    ELSE
      LET scene_idx == self.curr_scene_idx
          scene == self.scenes[scene_idx + 1]
          idx == IF new THEN Len(scene.camera.moves) ELSE self.curr_cam_move_idx
          actor_names == [k \in 1..Len(scene.actors) |-> scene.actors[k].actor.name]
          new_cam_move ==
            IF linked
            THEN [x |-> 0, y |-> 0, duration_sec |-> duration,
                  linked_sa |-> Some(scene.actors[IndexOf(actor_names, actor_name[1]) + 1])]
            ELSE [x |-> x, y |-> y, duration_sec |-> duration, linked_sa |-> None]
      IN  set_cam_move(set_scene(unsaved_scene(
                [self EXCEPT !.scenes[scene_idx + 1].camera.moves =
                                IF new THEN Append(@, new_cam_move)
                                ELSE [@ EXCEPT ![idx + 1] = new_cam_move]],
                scene_idx), scene_idx),
              idx)

delete_camera_move(self) ==
    IF self.curr_scene_idx = NoneIdx \/ self.curr_cam_move_idx = NoneIdx
    THEN self
    ELSE set_scene(unsaved_scene(clean_cam_move(
            [self EXCEPT !.scenes[self.curr_scene_idx + 1].camera.moves =
                            Pop(@, self.curr_cam_move_idx)]),
            self.curr_scene_idx), self.curr_scene_idx)

----------------------------------------------------------------------------
(* Specification Spec: the editor driven through its scene handlers        *)

MaxScenes == 2       \* scenes open at once

NoArgs == [none |-> TRUE]

\* an actor whose only scheduled action has no frame at SceneFps
BlinkerSA ==
    [actor |-> HeroActor, start_x |-> 0, start_y |-> 0,
     scheduled_actions |-> <<[action |-> BlinkAction, duration_sec |-> 3,
                              start_offset_sec |-> 0, is_visible |-> TRUE]>>]

\* the image open_image_file returns
BgImage == [w |-> MaxBg, h |-> MaxBg - 1]

\* a scene file with every key: two actors, the camera follows the walker
\* for a frame and then pans for two
IntroFile ==
    [path |-> "intro.json",
     data |-> [name |-> "Intro",
               background |-> Some(BgImage),
               duration_sec |-> 6,
               actors |-> <<WalkerSA, StanderSA>>,
               camera |-> [width |-> 2, height |-> 2, start_x |-> 1, start_y |-> -1,
                           moves |-> <<[linked_sa |-> Some(WalkerSA), duration_sec |-> 2],
                                       [x |-> 4, y |-> 2, duration_sec |-> 4]>>]]]

\* a scene file without background, whose optional keys are left out
BlinkFile ==
    [path |-> "blink.json",
     data |-> [name |-> "Blink",
               duration_sec |-> 4,
               actors |-> <<BlinkerSA,
                            [actor |-> HeroActor, start_x |-> -2, start_y |-> 7]>>,
               camera |-> [moves |-> <<[linked_sa |-> Some(BlinkerSA)]>>]]]

SceneFiles == {IntroFile, BlinkFile}

Init ==
    /\ AppInit
    /\ pc = "idle"
    /\ args = NoArgs
    /\ locals = NoLocals
    /\ ret = NoRet

\* the handler has run and left the application object as self
Ran(self) ==
    /\ args' = NoArgs
    /\ locals' = NoLocals
    /\ actors' = self.actors
    /\ actors_save_status' = self.actors_save_status
    /\ curr_actor_idx' = self.curr_actor_idx
    /\ curr_action_idx' = self.curr_action_idx
    /\ curr_comp_idx' = self.curr_comp_idx
    /\ scenes' = self.scenes
    /\ scenes_save_status' = self.scenes_save_status
    /\ curr_scene_idx' = self.curr_scene_idx
    /\ curr_cam_move_idx' = self.curr_cam_move_idx
    /\ curr_sa_idx' = self.curr_sa_idx
    /\ curr_sched_idx' = self.curr_sched_idx

\* the handler renders nothing and shows nothing
Quiet ==
    /\ pc' = "idle"
    /\ ret' = NoRet
    /\ popups' = 0
    /\ files' = 0
    /\ notices' = 0
    /\ called' = {}

AddScene ==
    /\ Len(scenes) < MaxScenes
    /\ Ran(add_scene(Self))
    /\ Quiet

OpenScene ==
    /\ Len(scenes) < MaxScenes
    /\ \E file_res \in {None} \cup {Some(f) : f \in SceneFiles} :
          Ran(open_scene(Self, file_res))
    /\ Quiet

DeleteScene ==
    /\ \E answer \in BOOLEAN : Ran(delete_scene(Self, answer))
    /\ Quiet

SelectScene ==
    /\ \E idx \in 0..(Len(scenes) - 1) : Ran(select_scene(Self, idx))
    /\ Quiet

SetBackground ==
    /\ \E img \in {None, Some(BgImage)} :
          Ran(set_background(Self, img))
    /\ Quiet

\* the rows of the three lists of the scene tab are those of the selected
\* scene and of its selected scene actor; a row of the schedule list can be
\* picked while the selected scene actor exists in the selected scene
SelectCameraMove ==
    /\ curr_scene_idx # NoneIdx
    /\ \E idx \in 0..(Len(scenes[curr_scene_idx + 1].camera.moves) - 1) :
          Ran(select_camera_move(Self, idx))
    /\ Quiet

SelectSceneActor ==
    /\ curr_scene_idx # NoneIdx
    /\ \E idx \in 0..(Len(scenes[curr_scene_idx + 1].actors) - 1) :
          Ran(select_scene_actor(Self, idx))
    /\ Quiet

SelectScheduledAction ==
    /\ curr_scene_idx # NoneIdx
    /\ curr_sa_idx # NoneIdx
    /\ curr_sa_idx < Len(scenes[curr_scene_idx + 1].actors)
    /\ \E idx \in 0..(Len(scenes[curr_scene_idx + 1].actors[curr_sa_idx + 1]
                              .scheduled_actions) - 1) :
          Ran(select_scheduled_action(Self, idx))
    /\ Quiet

\* preview_scene (lines 1220-1243): an exception ends the handler, Tk
\* reports it and the application goes on
PreviewScene ==
    \E frames_arr \in {get_scene_frames(Self)} :
        /\ pc' = "preview_scene"
        /\ Ran([Self EXCEPT !.scenes = frames_arr.scenes])
        /\ ret' = [err |-> frames_arr.err, frames |-> frames_arr.frames]
        /\ called' = frames_arr.called
        /\ notices' = frames_arr.notices
        /\ popups' = IF frames_arr.frames = None THEN 0 ELSE 1
        /\ files' = 0

\* export_scene (lines 1245-1267): path is what asksaveasfilename returns
ExportScene ==
    \E frames_arr \in {get_scene_frames(Self)}, path \in {"", "scene.mp4"} :
        LET written == frames_arr.frames # None /\ path # ""
        IN  /\ pc' = "export_scene"
            /\ Ran([Self EXCEPT !.scenes = frames_arr.scenes])
            /\ ret' = [err |-> frames_arr.err, frames |-> frames_arr.frames]
            /\ called' = frames_arr.called
            /\ popups' = 0
            /\ files' = IF written THEN 1 ELSE 0
            /\ notices' = frames_arr.notices + (IF written THEN 1 ELSE 0)

Next ==
    \/ AddScene
    \/ OpenScene
    \/ DeleteScene
    \/ SelectScene
    \/ SetBackground
    \/ SelectCameraMove
    \/ SelectSceneActor
    \/ SelectScheduledAction
    \/ PreviewScene
    \/ ExportScene

Spec == Init /\ [][Next]_vars

----------------------------------------------------------------------------
(* Specification SpecEdit: a document built by hand, from the empty        *)
(* application, with the handlers of the two tabs                          *)

MaxDocActors == 2    \* actors of the document
MaxActions == 2      \* actions of one actor
MaxSceneActors == 2  \* scene actors of one scene

\* the handler named has run without rendering
Did(handler, n_notices) ==
    /\ pc' = handler
    /\ ret' = NoRet
    /\ popups' = 0
    /\ files' = 0
    /\ notices' = n_notices
    /\ called' = {}

\* the scene selected, where there is one
CurrScene == scenes[curr_scene_idx + 1]

\* the document gets one scene
AddFirstScene ==
    /\ Len(scenes) = 0
    /\ AddScene

AddActor ==
    /\ Len(actors) < MaxDocActors
    /\ Ran(add_actor(Self))
    /\ Did("add_actor", 0)

AddAction ==
    /\ curr_actor_idx # NoneIdx
    /\ Len(actors[curr_actor_idx + 1].actions) < MaxActions
    /\ Ran(add_action(Self))
    /\ Did("add_action", 0)

\* the dropdown of the popup offers the names of the document's actors;
\* without actors the handler shows a notice and adds nothing
AddSceneActor ==
    /\ curr_scene_idx # NoneIdx
    /\ Len(CurrScene.actors) < MaxSceneActors
    /\ IF Len(actors) = 0
       THEN /\ Ran(Self)
            /\ Did("add_scene_actor", 1)
       ELSE /\ \E k \in 1..Len(actors), start_x \in {0, 1} :
                  Ran(add_scene_actor(Self, actors[k].name, start_x, 0))
            /\ Did("add_scene_actor", 0)

DeleteSceneActor ==
    /\ curr_scene_idx # NoneIdx
    /\ curr_sa_idx # NoneIdx
    /\ curr_sa_idx < Len(CurrScene.actors)
    /\ Ran(delete_scene_actor(Self))
    /\ Did("delete_scene_actor", 0)

MoveSceneActor ==
    /\ curr_scene_idx # NoneIdx
    /\ curr_sa_idx # NoneIdx
    /\ curr_sa_idx < Len(CurrScene.actors)
    /\ \E delta \in {-1, 1} : Ran(move_scene_actor(Self, delta))
    /\ Did("move_scene_actor", 0)

\* the dropdown of the popup offers the names of the actors of the scene's
\* scene actors; a free move goes one pixel right in a second
SaveCamMove ==
    /\ curr_scene_idx # NoneIdx
    /\ \E new \in BOOLEAN :
          /\ new => Len(CurrScene.camera.moves) < MaxMoves
          /\ ~new => /\ curr_cam_move_idx # NoneIdx
                     /\ curr_cam_move_idx < Len(CurrScene.camera.moves)
          /\ \/ Ran(save_cam_move(Self, new, FALSE, None, 1, 0, TicksPerSec))
             \/ \E k \in 1..Len(CurrScene.actors) :
                   Ran(save_cam_move(Self, new, TRUE, Some(CurrScene.actors[k].actor.name),
                                     0, 0, TicksPerSec))
    /\ Did("save_cam_move", 0)

DeleteCameraMove ==
    /\ curr_scene_idx # NoneIdx
    /\ curr_cam_move_idx # NoneIdx
    /\ curr_cam_move_idx < Len(CurrScene.camera.moves)
    /\ Ran(delete_camera_move(Self))
    /\ Did("delete_camera_move", 0)

NextEdit ==
    \/ AddActor
    \/ AddAction
    \/ AddFirstScene
    \/ AddSceneActor
    \/ SelectSceneActor
    \/ DeleteSceneActor
    \/ MoveSceneActor
    \/ SaveCamMove
    \/ SelectCameraMove
    \/ DeleteCameraMove

SpecEdit == Init /\ [][NextEdit]_vars

----------------------------------------------------------------------------
(* Specification SpecActor: an actor written to a dictionary, read back    *)
(* and written again                                                       *)


\* components as the editor makes them (no speed, no direction) and as a
\* file can hold them
ActorComps ==
    {[sprite |-> SpriteA, duration_sec |-> 3, x_offset |-> MaxOffset, y_offset |-> -1,
      movement_speed |-> None, direction |-> None],
     [sprite |-> SpriteB, duration_sec |-> 0, x_offset |-> -2, y_offset |-> 0,
      movement_speed |-> Some(4), direction |-> Some("Left")],
     [sprite |-> SpriteA, duration_sec |-> TicksPerSec, x_offset |-> 0, y_offset |-> 2,
      movement_speed |-> None, direction |-> Some("Down")]}

ActorActions == [name : {"Walk"}, components : SeqsUpTo(ActorComps, MaxComps)]

Actors == [name : {"Hero"}, actions : SeqsUpTo(ActorActions, MaxActions)]

InitActor ==
    /\ AppInit
    /\ pc = "call"
    /\ args \in [a : Actors]
    /\ locals = NoLocals
    /\ ret = NoRet

\* d = a.to_dict()
ActorToDict ==
    /\ pc = "call"
    /\ "a" \in DOMAIN args
    /\ pc' = "saved"
    /\ locals' = [d |-> Actor_to_dict(args.a)]
    /\ UNCHANGED <<args, ret, app_vars>>

\* b = Actor.from_dict(d)
ActorFromDict ==
    /\ pc = "saved"
    /\ pc' = "loaded"
    /\ ret' = Actor_from_dict(locals.d)
    /\ UNCHANGED <<args, locals, app_vars>>

\* d_again = b.to_dict()
ActorToDictAgain ==
    /\ pc = "loaded"
    /\ ret.err = "none"
    /\ pc' = "saved again"
    /\ locals' = [d |-> locals.d, d_again |-> Actor_to_dict(ret.actor)]
    /\ UNCHANGED <<args, ret, app_vars>>

NextActor == ActorToDict \/ ActorFromDict \/ ActorToDictAgain

SpecActor == InitActor /\ [][NextActor]_vars

----------------------------------------------------------------------------
(* Serialisation of scenes with the objects told apart                     *)
(* (data_models/scene.py).  A camera move refers to a SceneActor object: a *)
(* link is None or Some of [idx, sa], idx the position of the object in    *)
(* the actors list of the scene, or None when the object is not in that    *)
(* list, and sa its content.  Actors and actions go through the            *)
(* dictionaries of data_models/actor.py.                                   *)

\* str(d) of a dictionary: the text spells out the whole content
str(d) == <<"str", d>>

ScheduledAction_to_dict(self) ==
    [action |-> Action_to_dict(self.action),
     duration_sec |-> self.duration_sec,
     start_offset_sec |-> self.start_offset_sec,
     is_visible |-> self.is_visible]

\* ScheduledAction.from_dict, the action read by Action.from_dict
ScheduledAction_from_dict_obj(d) ==
    [action |-> Action_from_dict(d.action),
     duration_sec |-> d.duration_sec,
     start_offset_sec |-> Get(d, "start_offset_sec", 0),
     is_visible |-> Get(d, "is_visible", TRUE)]

SceneActor_to_dict(self) ==
    [actor |-> Actor_to_dict(self.actor),
     start_x |-> self.start_x,
     start_y |-> self.start_y,
     scheduled_actions |-> [k \in 1..Len(self.scheduled_actions) |->
                                ScheduledAction_to_dict(self.scheduled_actions[k])]]

\* SceneActor.from_dict, the actor read by Actor.from_dict; replace_actor
\* swaps equal actions for those of the actor and leaves the content
SceneActor_from_dict_obj(d) ==
    LET scheds == Get(d, "scheduled_actions", <<>>)
    IN  [actor |-> Actor_from_dict(d.actor).actor,
         start_x |-> d.start_x,
         start_y |-> d.start_y,
         scheduled_actions |->
            [k \in 1..Len(scheds) |-> ScheduledAction_from_dict_obj(scheds[k])]]

\* CameraMove.to_dict: the linked scene actor is written out in full
CameraMove_to_dict(self) ==
    [x |-> self.x,
     y |-> self.y,
     linked_sa |-> IF self.linked_sa = None THEN None
                   ELSE Some(SceneActor_to_dict(self.linked_sa[1].sa)),
     duration_sec |-> self.duration_sec]

\* CameraMove.from_dict: the linked scene actor is an object of its own
CameraMove_from_dict_obj(d) ==
    LET dict_sa == Get(d, "linked_sa", None)
    IN  [x |-> Get(d, "x", 0),
         y |-> Get(d, "y", 0),
         linked_sa |-> IF dict_sa = None THEN None
                       ELSE Some([idx |-> NoneIdx,
                                  sa |-> SceneActor_from_dict_obj(dict_sa[1])]),
         duration_sec |-> Get(d, "duration_sec", TicksPerSec)]

Camera_to_dict(self) ==
    [width |-> self.width, height |-> self.height,
     start_x |-> self.start_x, start_y |-> self.start_y,
     moves |-> [k \in 1..Len(self.moves) |-> CameraMove_to_dict(self.moves[k])]]

Camera_from_dict_obj(d) ==
    LET moves == Get(d, "moves", <<>>)
    IN  [width |-> Get(d, "width", DefaultCamera.width),
         height |-> Get(d, "height", DefaultCamera.height),
         start_x |-> Get(d, "start_x", 0),
         start_y |-> Get(d, "start_y", 0),
         moves |-> [k \in 1..Len(moves) |-> CameraMove_from_dict_obj(moves[k])]]

Scene_to_dict(self) ==
    [name |-> self.name,
     background |-> IF self.background = None THEN None
                    ELSE Some(png_b64encode(self.background[1])),
     duration_sec |-> self.duration_sec,
     actors |-> [k \in 1..Len(self.actors) |-> SceneActor_to_dict(self.actors[k])],
     camera |-> Camera_to_dict(self.camera)]

\* a camera move whose linked copy is left as CameraMove.from_dict made it
relink_never(move, scene_actors) == move

\* lines 452-459 for one camera move: a linked copy whose text is that of a
\* scene actor of the list is swapped for the first such scene actor
relink(move, scene_actors) ==
    IF move.linked_sa = None
    THEN move
    ELSE
      LET actors_str == [k \in 1..Len(scene_actors) |->
                            str(SceneActor_to_dict(scene_actors[k]))]
          linked_sa_str == str(SceneActor_to_dict(move.linked_sa[1].sa))
      IN  IF linked_sa_str \in Range(actors_str)
          THEN LET actor_idx == IndexOf(actors_str, linked_sa_str)
               IN  [move EXCEPT !.linked_sa =
                        Some([idx |-> actor_idx, sa |-> scene_actors[actor_idx + 1]])]
          ELSE move

\* Scene.from_dict: the loop of lines 442-448 makes equal actors one object
\* and leaves the content
Scene_from_dict_obj(d) ==
    LET background_bytes == Get(d, "background", None)
        sas == Get(d, "actors", <<>>)
        scene_actors == [k \in 1..Len(sas) |-> SceneActor_from_dict_obj(sas[k])]
        camera == Camera_from_dict_obj(Get(d, "camera", [moves |-> <<>>]))
    IN  [name |-> d.name,
         background |-> IF background_bytes = None THEN None
                        ELSE Some(png_b64decode(background_bytes[1])),
         duration_sec |-> Get(d, "duration_sec", 5 * TicksPerSec),
         actors |-> scene_actors,
         camera |-> [camera EXCEPT !.moves =
                        [k \in 1..Len(@) |-> relink(@[k], scene_actors)]]]

----------------------------------------------------------------------------
(* Specification SpecScene: a scene written to a dictionary and read back  *)

\* an actor with one action of one component, and one without actions
TurnAction ==
    [name |-> "Turn",
     components |-> <<[sprite |-> SpriteA, duration_sec |-> TicksPerSec, x_offset |-> 2,
                       y_offset |-> 0, movement_speed |-> None,
                       direction |-> Some("Left")]>>]

TurnerActor == [name |-> "Turner", actions |-> <<TurnAction>>]

ExtraActor == [name |-> "Extra", actions |-> <<>>]

\* the scene actors a scene is built from
PlacedSAs ==
    {[actor |-> TurnerActor, start_x |-> 0, start_y |-> 0,
      scheduled_actions |-> <<[action |-> TurnAction, duration_sec |-> TicksPerSec,
                               start_offset_sec |-> 0, is_visible |-> TRUE]>>],
     [actor |-> TurnerActor, start_x |-> 1, start_y |-> -1, scheduled_actions |-> <<>>],
     [actor |-> ExtraActor, start_x |-> 0, start_y |-> 0, scheduled_actions |-> <<>>]}

\* the camera moves of a scene with the given scene actors: free, linked to
\* one of them, or linked to a scene actor that is not in the list
MovesOver(scene_actors) ==
    {[x |-> 1, y |-> 0, linked_sa |-> None, duration_sec |-> TicksPerSec]}
    \cup {[x |-> 0, y |-> 0, duration_sec |-> TicksPerSec,
           linked_sa |-> Some([idx |-> k - 1, sa |-> scene_actors[k]])] :
            k \in 1..Len(scene_actors)}
    \cup {[x |-> 0, y |-> 0, duration_sec |-> TicksPerSec,
           linked_sa |-> Some([idx |-> NoneIdx, sa |-> sa])] : sa \in PlacedSAs}

LinkedScenes ==
    UNION {{[name |-> "Scene 1", background |-> Some(SpriteB),
             duration_sec |-> 5 * TicksPerSec, actors |-> scene_actors,
             camera |-> [DefaultCamera EXCEPT !.moves = moves]] :
                moves \in SeqsUpTo(MovesOver(scene_actors), MaxMoves)} :
           scene_actors \in SeqsUpTo(PlacedSAs, MaxSceneActors)}

InitScene ==
    /\ AppInit
    /\ pc = "call"
    /\ args \in [s : LinkedScenes]
    /\ locals = NoLocals
    /\ ret = NoRet

\* d = s.to_dict()
SceneToDict ==
    /\ pc = "call"
    /\ "s" \in DOMAIN args
    /\ pc' = "saved"
    /\ locals' = [d |-> Scene_to_dict(args.s)]
    /\ UNCHANGED <<args, ret, app_vars>>

\* loaded = Scene.from_dict(d)
SceneFromDict ==
    /\ pc = "saved"
    /\ "s" \in DOMAIN args
    /\ pc' = "loaded"
    /\ ret' = [err |-> "none", scene |-> Scene_from_dict_obj(locals.d)]
    /\ UNCHANGED <<args, locals, app_vars>>

NextScene == SceneToDict \/ SceneFromDict

SpecScene == InitScene /\ [][NextScene]_vars

----------------------------------------------------------------------------
(* Specification SpecPopup: an AnimationPopup playing its frames           *)
(* (widgets/animation_popup.py).  time.perf_counter() is a clock in ticks  *)
(* that never runs backwards: every reading is the one before plus a lag.  *)
(* Tk runs one callback at a time, so close() runs between two calls of    *)
(* animate, never inside one.                                              *)

MaxPopupFrames == 2  \* frames of a popup
MaxClock == 10       \* last tick of the clock
MaxLag == 3          \* most ticks between two readings of the clock

Min(a, b) == IF a <= b THEN a ELSE b

\* the frame shown without the limit of line 115
frame_index_no_min(elapsed, fps, frame_count) == IntFrames(elapsed, fps)

\* lines 114-115: the index of the frame to show
frame_index(elapsed, fps, frame_count) == Min(IntFrames(elapsed, fps), frame_count - 1)

\* elapsed > self.duration, the duration being frame_count / fps seconds
cycle_over(elapsed, fps, frame_count) == elapsed * fps > frame_count * TicksPerSec

\* __init__ has built the popup, read the clock into start_time and is
\* about to call animate
InitPopup ==
    /\ AppInit
    /\ pc = "call"
    /\ args \in [frame_count : 1..MaxPopupFrames, fps : FpsSet]
    /\ locals = [running |-> TRUE, start_time |-> 0, now |-> 0, elapsed |-> 0,
                 image |-> NoneIdx, after |-> FALSE, destroyed |-> FALSE]
    /\ ret = NoRet

\* one call of animate: from __init__, from itself after a restart, or from
\* the event loop when the callback of popup.after is due
Animate ==
    /\ \/ pc \in {"call", "restarted"}
       \/ pc \in {"shown", "closed"} /\ locals.after
    /\ IF ~locals.running
       THEN /\ pc' = "returned"
            /\ locals' = [locals EXCEPT !.after = FALSE]
       ELSE \E lag \in 0..MaxLag :
              LET t == locals.now + lag
                  elapsed == t - locals.start_time
              IN  /\ t <= MaxClock
                  /\ IF cycle_over(elapsed, args.fps, args.frame_count)
                     THEN \E lag_again \in 0..MaxLag :
                            /\ t + lag_again <= MaxClock
                            /\ pc' = "restarted"
                            /\ locals' = [locals EXCEPT !.now = t + lag_again,
                                                        !.start_time = t + lag_again,
                                                        !.elapsed = elapsed,
                                                        !.after = FALSE]
                     ELSE /\ pc' = "shown"
                          /\ locals' = [locals EXCEPT
                                !.now = t,
                                !.elapsed = elapsed,
                                !.image = frame_index(elapsed, args.fps,
                                                            args.frame_count),
                                !.after = TRUE]
    /\ UNCHANGED <<args, ret, app_vars>>

\* close, the handler of WM_DELETE_WINDOW
Close ==
    /\ pc = "shown"
    /\ pc' = "closed"
    /\ locals' = [locals EXCEPT !.running = FALSE, !.destroyed = TRUE]
    /\ UNCHANGED <<args, ret, app_vars>>

\* popup.destroy() deletes the commands registered on the popup: the
\* callback still pending may never be called
Drop ==
    /\ pc = "closed"
    /\ locals.after
    /\ pc' = "dropped"
    /\ locals' = [locals EXCEPT !.after = FALSE]
    /\ UNCHANGED <<args, ret, app_vars>>

NextPopup == Animate \/ Close \/ Drop

SpecPopup == InitPopup /\ [][NextPopup]_vars

----------------------------------------------------------------------------
(* Properties of get_action_frames                                         *)

\* floor(fps * ticks / TicksPerSec), written out
FloorFrames(ticks, fps) == (ticks * fps) \div TicksPerSec

\* the frames of the first c components of an action
CompStart(comps, c, fps) ==
    SeqSum([j \in 1..(c - 1) |-> n_comp_frames(comps[j], fps)])

\* the part of a sampled track that belongs to component c
CompDeltas(track, comps, c, fps) ==
    Slice(track, CompStart(comps, c, fps),
          CompStart(comps, c, fps) + n_comp_frames(comps[c], fps))

Sampled == pc = "return" /\ "action" \in DOMAIN args

\* C7 as stated: the deltas of every component, whatever its duration, sum
\* to its x_offset (y_offset).
C7_SumEqualsOffset_AnyDuration ==
    Sampled =>
        LET comps == args.action.components
        IN  \A c \in 1..Len(comps) :
                /\ SeqSum(CompDeltas(ret.dx, comps, c, args.fps)) = comps[c].x_offset
                /\ SeqSum(CompDeltas(ret.dy, comps, c, args.fps)) = comps[c].y_offset

\* C7 amended: the deltas of every component that lasts at least one frame
\* sum to exactly its x_offset (y_offset); a component of zero frames has no
\* deltas; so dx (dy) sums to the offsets of the components that have frames.
C7_SumEqualsOffset ==
    Sampled =>
        LET comps == args.action.components
            fps == args.fps
            framed == {c \in 1..Len(comps) : n_comp_frames(comps[c], fps) >= 1}
        IN  /\ \A c \in 1..Len(comps) :
                IF c \in framed
                THEN /\ SeqSum(CompDeltas(ret.dx, comps, c, fps)) = comps[c].x_offset
                     /\ SeqSum(CompDeltas(ret.dy, comps, c, fps)) = comps[c].y_offset
                ELSE /\ CompDeltas(ret.dx, comps, c, fps) = <<>>
                     /\ CompDeltas(ret.dy, comps, c, fps) = <<>>
            /\ SeqSum(ret.dx) =
                 SeqSum([c \in 1..Len(comps) |->
                            IF c \in framed THEN comps[c].x_offset ELSE 0])
            /\ SeqSum(ret.dy) =
                 SeqSum([c \in 1..Len(comps) |->
                            IF c \in framed THEN comps[c].y_offset ELSE 0])

\* a sampled action with a component of two frames or more whose negative
\* offset does not divide evenly (the nodes are truncated)
C7_Witness ==
    /\ Sampled
    /\ \E c \in 1..Len(args.action.components) :
         LET comp == args.action.components[c]
             n == n_comp_frames(comp, args.fps)
         IN  /\ n >= 2
             /\ comp.x_offset < 0
             /\ (-comp.x_offset) % n # 0
             /\ Len(CompDeltas(ret.dx, args.action.components, c, args.fps)) = n

\* C11: get_action_frames returns dx, dy and sprites of one common length,
\* the sum over the components of floor(duration_sec * fps), whatever slot
\* plays the action; an action without components yields three empty arrays.
C11_CommonNaturalLength ==
    Sampled =>
        LET comps == args.action.components
            L == SeqSum([c \in 1..Len(comps) |->
                            IntFrames(comps[c].duration_sec, args.fps)])
        IN  /\ Len(ret.dx) = L
            /\ Len(ret.dy) = L
            /\ Len(ret.sprites) = L
            /\ (Len(comps) = 0 =>
                    ret.dx = <<>> /\ ret.dy = <<>> /\ ret.sprites = <<>>)

\* a sampled action of two components, one of them shorter than a frame and
\* one of a frame or more with a duration that is no whole number of frames
C11_Witness ==
    /\ Sampled
    /\ Len(args.action.components) = 2
    /\ \E c \in 1..2 : IntFrames(args.action.components[c].duration_sec, args.fps) = 0
                        /\ args.action.components[c].duration_sec > 0
    /\ \E c \in 1..2 :
          /\ IntFrames(args.action.components[c].duration_sec, args.fps) >= 1
          /\ (args.action.components[c].duration_sec * args.fps) % TicksPerSec # 0
    /\ Len(ret.sprites) >= 1

Abs(v) == IF v < 0 THEN -v ELSE v

\* a delta of a component of n frames and offset d: not against d, and
\* between floor(|d| / n) and ceil(|d| / n) in magnitude
EvenStep(delta, d, n) ==
    /\ delta = 0 \/ (delta > 0) = (d > 0)
    /\ Abs(d) \div n <= Abs(delta)
    /\ Abs(delta) <= (Abs(d) + n - 1) \div n

\* C24: for a component of n = floor(duration_sec * fps) >= 1 frames and
\* offset d, every per-frame delta is zero or has the sign of d, and any two
\* deltas of the component differ by at most 1, each lying between
\* floor(|d| / n) and ceil(|d| / n) in magnitude.
C24_DeltasEven ==
    Sampled =>
        \A c \in 1..Len(args.action.components) :
            LET comp == args.action.components[c]
                n == FloorFrames(comp.duration_sec, args.fps)
                first == SeqSum([j \in 1..(c - 1) |->
                            FloorFrames(args.action.components[j].duration_sec, args.fps)])
                dxs == Slice(ret.dx, first, first + n)
                dys == Slice(ret.dy, first, first + n)
            IN  n >= 1 =>
                  /\ Len(dxs) = n /\ Len(dys) = n
                  /\ \A i \in 1..n : /\ EvenStep(dxs[i], comp.x_offset, n)
                                     /\ EvenStep(dys[i], comp.y_offset, n)
                  /\ \A i, j \in 1..n : /\ Abs(dxs[i] - dxs[j]) <= 1
                                        /\ Abs(dys[i] - dys[j]) <= 1

\* a component of two frames or more whose negative offset is no multiple
\* of its frames: its deltas are unequal and none is positive
C24_Witness ==
    /\ Sampled
    /\ \E c \in 1..Len(args.action.components) :
          LET comp == args.action.components[c]
              n == FloorFrames(comp.duration_sec, args.fps)
          IN  /\ c = 1
              /\ n >= 2
              /\ comp.x_offset < 0
              /\ (-comp.x_offset) % n # 0
              /\ ret.dx[1] # ret.dx[2]
              /\ ret.dx[1] <= 0 /\ ret.dx[2] < 0

----------------------------------------------------------------------------
(* Properties of the actor serialisation                                   *)

ActorLoaded == "a" \in DOMAIN args /\ pc \in {"loaded", "saved again"}

SameComponent(p, q) ==
    /\ p.duration_sec = q.duration_sec
    /\ p.x_offset = q.x_offset
    /\ p.y_offset = q.y_offset
    /\ p.movement_speed = q.movement_speed
    /\ p.direction = q.direction
    /\ p.sprite = q.sprite

SameAction(p, q) ==
    /\ p.name = q.name
    /\ Len(p.components) = Len(q.components)
    /\ \A c \in 1..Len(p.components) : SameComponent(p.components[c], q.components[c])

\* C13: Actor.from_dict(a.to_dict()) is field-equal to a: same name, same
\* ordered actions, each with the same name and ordered components, each
\* component with the same duration, offsets, movement speed, direction and
\* sprite content; and to_dict of the result is the dictionary it was read from.
C13_ActorRoundTrip ==
    ActorLoaded =>
        /\ ret.err = "none"
        /\ ret.actor.name = args.a.name
        /\ Len(ret.actor.actions) = Len(args.a.actions)
        /\ \A k \in 1..Len(args.a.actions) :
              SameAction(ret.actor.actions[k], args.a.actions[k])
        /\ pc = "saved again" => locals.d_again = locals.d

\* an actor of two actions, one of two different components, with and
\* without speed and direction, read back and written again
C13_Witness ==
    /\ ActorLoaded
    /\ pc = "saved again"
    /\ Len(args.a.actions) = 2
    /\ \E k \in 1..2 :
          /\ Len(args.a.actions[k].components) = 2
          /\ args.a.actions[k].components[1].direction # None
          /\ args.a.actions[k].components[1].movement_speed # None
          /\ args.a.actions[k].components[2].direction = None
          /\ args.a.actions[k].components[1].sprite # args.a.actions[k].components[2].sprite
    /\ locals.d # args.a

----------------------------------------------------------------------------
(* Properties of get_scene_actor_frames                                    *)

InSched == "scene_actor" \in DOMAIN args
SchedReturned == InSched /\ pc = "return"

\* the schedule's time, in ticks, before slot k
SlotStartTicks(scheds, k) ==
    SeqSum([j \in 1..(k - 1) |-> scheds[j].duration_sec])

\* the frame cursor before slot k and the span of slot k, by absolute time
SlotStart(scheds, k, fps) == IntFrames(SlotStartTicks(scheds, k), fps)
SlotSpan(scheds, k, fps) ==
    IntFrames(SlotStartTicks(scheds, k + 1), fps) - SlotStart(scheds, k, fps)

\* the frames the walk has emitted
Emitted(w) == Len(Flatten(w.dx))

\* C2: a call that returns gives x, y and sprites of exactly n_frames
\* entries each, whatever the schedule.
C2_TracksHaveNFrames ==
    (SchedReturned /\ ret.err = "none") =>
        /\ Len(ret.x) = args.n_frames
        /\ Len(ret.y) = args.n_frames
        /\ Len(ret.sprites) = args.n_frames

\* C5: when a scheduled action the loop reaches samples to a zero-length
\* track, the call does not end in an arithmetic fault.
C5_ZeroLengthTrackGuarded ==
    (/\ SchedReturned
     /\ \E k \in 1..locals.i :
            Len(get_action_frames(args.scene_actor.scheduled_actions[k].action,
                                  args.fps).dx) = 0)
    => ret.err # "ZeroDivisionError"

\* C8: the j-th delta of every slot the loop has processed is the entry
\* (o + j) mod L of the natural track of the slot's own action, and so is the
\* j-th sprite of a visible slot.
C8_SlotPlaysTiledTrack ==
    InSched =>
        LET scheds == args.scene_actor.scheduled_actions
            fps == args.fps
        IN  \A k \in 1..Len(locals.dx) :
              LET nat == get_action_frames(scheds[k].action, fps)
                  L == Len(nat.dx)
                  o == IntFrames(scheds[k].start_offset_sec, fps)
                  s == SlotSpan(scheds, k, fps)
                  c == SlotStart(scheds, k, fps)
              IN  L > 0 =>
                    /\ Len(locals.dx[k]) = s
                    /\ Len(locals.dy[k]) = s
                    /\ \A j \in 0..(s - 1) :
                         /\ locals.dx[k][j + 1] = nat.dx[((o + j) % L) + 1]
                         /\ locals.dy[k][j + 1] = nat.dy[((o + j) % L) + 1]
                         /\ scheds[k].is_visible =>
                              locals.sprites[c + j + 1] = nat.sprites[((o + j) % L) + 1]

\* C27: the track a processed slot was cut from is the one sampled from the
\* action stored in that slot, whatever other slots hold under its name
C27_SlotSampledFromOwnAction ==
    InSched =>
        LET scheds == args.scene_actor.scheduled_actions
        IN  \A k \in 1..Len(locals.dx) :
              /\ scheds[k].action.name \in DOMAIN locals.action_dict
              /\ locals.action_dict[scheds[k].action.name]
                    = get_action_frames(scheds[k].action, args.fps)

\* C9: when the slots cover T frames, 0 < T < n_frames, the returned tracks
\* have an entry at every index of [T, n_frames) and it repeats entry T-1.
C9_IdlePadding ==
    (SchedReturned /\ ret.err = "none") =>
        LET T == Emitted(locals)
        IN  (0 < T /\ T < args.n_frames) =>
              \A i \in (T + 1)..args.n_frames :
                 /\ i <= Len(ret.x) /\ ret.x[i] = ret.x[T]
                 /\ i <= Len(ret.y) /\ ret.y[i] = ret.y[T]
                 /\ i <= Len(ret.sprites) /\ ret.sprites[i] = ret.sprites[T]

----------------------------------------------------------------------------
(* Properties of get_camera_pos                                            *)

InCam == "camera" \in DOMAIN args
CamReturned == InCam /\ pc = "return"

\* ticks scheduled before move k, and the frames move k occupies
MoveStartTicks(moves, k) ==
    SeqSum([m \in 1..(k - 1) |-> moves[m].duration_sec])
MoveStart(moves, k, fps) == IntFrames(MoveStartTicks(moves, k), fps)
MoveSpan(moves, k, fps) ==
    IntFrames(MoveStartTicks(moves, k) + moves[k].duration_sec, fps)
        - MoveStart(moves, k, fps)

\* C3: for every camera, every n_frames >= 0 and every fps, get_camera_pos
\* returns x and y that each have exactly n_frames entries.
C3_CameraTrackHasNFrames ==
    CamReturned =>
        /\ ret.err = "none"
        /\ Len(ret.x) = args.n_frames
        /\ Len(ret.y) = args.n_frames

\* C4: over the frames [c, c+span) of a move linked to a scene actor, below
\* n_frames, the camera track equals the track of that actor, whatever
\* moves precede it.
C4_LinkedMoveCopiesActor ==
    CamReturned /\ ret.err = "none" =>
        \A k \in 1..Len(args.camera.moves) :
            LET move == args.camera.moves[k]
                c == MoveStart(args.camera.moves, k, args.fps)
                span == MoveSpan(args.camera.moves, k, args.fps)
            IN  move.linked_sa # None =>
                    \A i \in c..(c + span - 1) :
                        i < args.n_frames =>
                            /\ i < Len(ret.x)
                            /\ ret.x[i + 1] = args.actors_frame_info[move.linked_sa[1]].x[i + 1]
                            /\ ret.y[i + 1] = args.actors_frame_info[move.linked_sa[1]].y[i + 1]

\* C16: the absolute position of a scene actor at frame i is (start_x,
\* start_y) plus the sum of the first i+1 concatenated per-frame deltas of
\* its schedule; one component of x_offset = 60 over 1.0 s, scheduled for
\* 1.0 s and rendered at 10 fps, advances by exactly 6 px from each frame to
\* the next over the 10 frames.
C16_PositionIsRunningSum ==
    SchedReturned /\ ret.err = "none" =>
        LET all_dx == Flatten(locals.dx)
            all_dy == Flatten(locals.dy)
        IN  /\ \A i \in 0..(Len(all_dx) - 1) :
                  i < Len(ret.x) =>
                      /\ ret.x[i + 1] = args.scene_actor.start_x
                                          + SeqSum(SubSeq(all_dx, 1, i + 1))
                      /\ ret.y[i + 1] = args.scene_actor.start_y
                                          + SeqSum(SubSeq(all_dy, 1, i + 1))
            /\ args = GlideCall =>
                  /\ Len(ret.x) = 10
                  /\ ret.x[1] = args.scene_actor.start_x + 6
                  /\ \A i \in 1..9 : ret.x[i + 1] = ret.x[i] + 6
                  /\ \A i \in 1..10 : ret.y[i] = args.scene_actor.start_y

\* the glide of the example has been rendered
C16_Witness ==
    /\ SchedReturned
    /\ args = GlideCall
    /\ ret.err = "none"
    /\ Len(Flatten(locals.dx)) = 10
    /\ ret.x[10] = args.scene_actor.start_x + 60

\* C17: whenever the walk over the scheduled actions emits zero frames in
\* total (an empty schedule included), get_scene_actor_frames returns a
\* track of n_frames entries, x constant at start_x, y constant at start_y
\* and every sprite None.
C17_NoFramesConstantTrack ==
    SchedReturned /\ Emitted(locals) = 0 =>
        /\ ret.err = "none"
        /\ ret.x = Repeat(args.scene_actor.start_x, args.n_frames)
        /\ ret.y = Repeat(args.scene_actor.start_y, args.n_frames)
        /\ ret.sprites = Repeat(NoneSprite, args.n_frames)

\* the scene actor with slot k of its schedule made visible
ShownSlot(scene_actor, k) ==
    [scene_actor EXCEPT !.scheduled_actions[k].is_visible = TRUE]

\* C18: for a scheduled slot with is_visible = false, every sprite over the
\* slot's span is None, while x and y over that span and over all later
\* frames are those of the same schedule with the slot visible.
C18_InvisibleSlotMovesUnseen ==
    SchedReturned /\ ret.err = "none" =>
        \A k \in 1..Len(args.scene_actor.scheduled_actions) :
            ~args.scene_actor.scheduled_actions[k].is_visible =>
                LET c == FloorFrames(SlotStartTicks(args.scene_actor.scheduled_actions, k),
                                     args.fps)
                    e == FloorFrames(SlotStartTicks(args.scene_actor.scheduled_actions, k + 1),
                                     args.fps)
                    shown == get_scene_actor_frames(ShownSlot(args.scene_actor, k),
                                                    args.n_frames, args.fps)
                IN  /\ \A i \in c..(e - 1) :
                          i < Len(ret.sprites) /\ i < args.n_frames =>
                              ret.sprites[i + 1] = NoneSprite
                    /\ shown.err = "none"
                    /\ Len(shown.x) = Len(ret.x)
                    /\ Len(shown.y) = Len(ret.y)
                    /\ \A i \in c..(Len(ret.x) - 1) :
                          /\ ret.x[i + 1] = shown.x[i + 1]
                          /\ ret.y[i + 1] = shown.y[i + 1]

\* an invisible slot that moves the actor, then a visible one
C18_Witness ==
    /\ SchedReturned
    /\ ret.err = "none"
    /\ Len(args.scene_actor.scheduled_actions) = 2
    /\ ~args.scene_actor.scheduled_actions[1].is_visible
    /\ args.scene_actor.scheduled_actions[2].is_visible
    /\ Len(ret.sprites) >= 2
    /\ ret.sprites[1] = NoneSprite
    /\ ret.sprites[2] # NoneSprite
    /\ ret.x[1] # args.scene_actor.start_x
    /\ get_scene_actor_frames(ShownSlot(args.scene_actor, 1),
                              args.n_frames, args.fps).sprites[1] # NoneSprite

\* the slots that start before frame n_frames: a prefix of the schedule,
\* the start frames never decreasing
SlotsBefore(scheds, n_frames, fps) ==
    SelectSeq([k \in 1..Len(scheds) |-> [k |-> k, sched |-> scheds[k]]],
              LAMBDA e : FloorFrames(SlotStartTicks(scheds, e.k), fps) < n_frames)

CutSchedule(scene_actor, n_frames, fps) ==
    LET kept == SlotsBefore(scene_actor.scheduled_actions, n_frames, fps)
    IN  [scene_actor EXCEPT !.scheduled_actions = [j \in 1..Len(kept) |-> kept[j].sched]]

\* C19: once the frame cursor has reached n_frames the remaining scheduled
\* actions are neither sampled nor able to influence the result: the track
\* returned is the one returned with every slot that starts at or after
\* frame n_frames removed, and such a slot cannot make the call fail.
C19_LateSlotsIgnored ==
    SchedReturned =>
        LET cut == CutSchedule(args.scene_actor, args.n_frames, args.fps)
        IN  /\ ret = get_scene_actor_frames(cut, args.n_frames, args.fps)
            /\ locals.i <= Len(cut.scheduled_actions)
            /\ \A name \in DOMAIN locals.action_dict :
                  \E j \in 1..Len(cut.scheduled_actions) :
                      cut.scheduled_actions[j].action.name = name

\* a call that returns a track although the slot after the last frame holds
\* an action that cannot be played
C19_Witness ==
    /\ SchedReturned
    /\ ret.err = "none"
    /\ args.n_frames > 0
    /\ Len(ret.x) = args.n_frames
    /\ Len(args.scene_actor.scheduled_actions) = 2
    /\ Len(CutSchedule(args.scene_actor, args.n_frames, args.fps).scheduled_actions) = 1
    /\ args.scene_actor.scheduled_actions[2].action = EmptyAction

\* the loop of get_camera_pos has just processed one more move
CamProcessed == InCam /\ pc = "call" /\ locals'.i = locals.i + 1 /\ locals'.err = "none"

\* C14: a camera move with no linked actor and span s > 0 that starts at
\* frame cursor c from camera position p emits exactly s samples, which
\* occupy frames c .. c+s-1 of the camera track, the last of them equal to
\* p + (move.x, move.y).
C14_FreeMoveEmitsSpan ==
    [][CamProcessed =>
          LET move == args.camera.moves[locals'.i]
              c == locals.curr_frame
              s == locals'.curr_frame - c
              move_x == locals'.x_list[locals'.i]
              move_y == locals'.y_list[locals'.i]
          IN  move.linked_sa = None /\ s > 0 =>
                /\ Len(move_x) = s
                /\ Len(move_y) = s
                /\ Len(Flatten(locals.x_list)) = c
                /\ move_x[Len(move_x)] = locals.x + move.x
                /\ move_y[Len(move_y)] = locals.y + move.y]_vars

\* the moves processed so far are all free and all span frames
FreeRun(moves, k, fps) ==
    \A j \in 1..k :
        /\ moves[j].linked_sa = None
        /\ FloorFrames(MoveStartTicks(moves, j + 1), fps)
             > FloorFrames(MoveStartTicks(moves, j), fps)

\* C20: the camera anchor is chained from move to move: after a move with a
\* non-zero span it is that move's last emitted sample, a zero-span move
\* leaves it unchanged; so after a run of free moves with positive spans the
\* camera sits at (start_x, start_y) plus the sum of their offsets, and a
\* free move that follows a linked move starts from the linked actor's
\* position at the last frame of the linked move.
C20_AnchorChained ==
    [][CamProcessed =>
          LET k == locals'.i
              moves == args.camera.moves
              move == moves[k]
              c == locals.curr_frame
              s == locals'.curr_frame - c
              move_x == locals'.x_list[k]
              move_y == locals'.y_list[k]
          IN  /\ s # 0 => /\ locals'.x = move_x[Len(move_x)]
                          /\ locals'.y = move_y[Len(move_y)]
              /\ s = 0 => locals'.x = locals.x /\ locals'.y = locals.y
              /\ FreeRun(moves, k, args.fps) =>
                    /\ locals'.x = args.camera.start_x
                                     + SeqSum([j \in 1..k |-> moves[j].x])
                    /\ locals'.y = args.camera.start_y
                                     + SeqSum([j \in 1..k |-> moves[j].y])
              /\ move.linked_sa # None /\ s # 0 =>
                    LET track == args.actors_frame_info[move.linked_sa[1]]
                        last == IF c + s <= Len(track.x) THEN c + s ELSE Len(track.x)
                    IN  /\ locals'.x = track.x[last]
                        /\ locals'.y = track.y[last]
              /\ k > 1 /\ move.linked_sa = None /\ s # 0 =>
                    /\ move_x[1] = locals.x
                    /\ move_y[1] = locals.y
                    /\ locals'.x = locals.x + move.x
                    /\ locals'.y = locals.y + move.y]_vars

\* a linked move that carried the camera away, then a free move that set
\* off from where the actor stood
C20_Witness ==
    /\ InCam
    /\ pc = "call"
    /\ locals.err = "none"
    /\ locals.i = 2
    /\ args.camera.moves[1].linked_sa # None
    /\ args.camera.moves[2].linked_sa = None
    /\ Len(locals.x_list[1]) >= 2
    /\ Len(locals.x_list[2]) >= 2
    /\ locals.x_list[1][Len(locals.x_list[1])] # args.camera.start_x
    /\ locals.x = locals.x_list[1][Len(locals.x_list[1])] + args.camera.moves[2].x
    /\ locals.x_list[2][1] = args.actors_frame_info[args.camera.moves[1].linked_sa[1]].x[2]

\* C21: at every frame index not covered by any camera move the camera
\* position is the last sample the moves emitted; a camera without moves,
\* or whose moves emit no sample, is constant at (start_x, start_y) for all
\* n_frames entries.
C21_CameraRestsAfterMoves ==
    CamReturned /\ ret.err = "none" =>
        LET cam_x == Flatten(locals.x_list)
            cam_y == Flatten(locals.y_list)
        IN  IF Len(cam_x) = 0
            THEN /\ ret.x = Repeat(args.camera.start_x, args.n_frames)
                 /\ ret.y = Repeat(args.camera.start_y, args.n_frames)
            ELSE \A i \in locals.curr_frame..(args.n_frames - 1) :
                    /\ i < Len(ret.x)
                    /\ ret.x[i + 1] = cam_x[Len(cam_x)]
                    /\ ret.y[i + 1] = cam_y[Len(cam_y)]

----------------------------------------------------------------------------
(* Properties of the two cursor walks                                      *)

\* the entries the walk iterates over, and the ticks of the first k of them
WalkEntries == IF InSched THEN args.scene_actor.scheduled_actions ELSE args.camera.moves
ElapsedTicks(k) == SeqSum([j \in 1..k |-> WalkEntries[j].duration_sec])

InWalk == (InSched \/ InCam) /\ pc = "call" /\ locals.err = "none"

\* C15: in both cursor walks, after the first k entries have been
\* processed the frame cursor is floor(fps * sum of the durations of those
\* k entries) and the time cursor is that sum, so each span is
\* floor((time_cursor + duration_sec) * fps) - frame_cursor; the frames the
\* actor walk has emitted, slot by slot, are those spans and never drift
\* from floor(fps * elapsed schedule time).
C15_CursorNeverDrifts ==
    InWalk =>
        /\ locals.curr_time = ElapsedTicks(locals.i)
        /\ locals.curr_frame = FloorFrames(ElapsedTicks(locals.i), args.fps)
        /\ InSched =>
              /\ Emitted(locals) = locals.curr_frame
              /\ Len(locals.sprites) = locals.curr_frame
              /\ \A k \in 1..locals.i :
                    Len(locals.dx[k]) = FloorFrames(ElapsedTicks(k), args.fps)
                                          - FloorFrames(ElapsedTicks(k - 1), args.fps)

\* a walk of two slots whose durations are no whole numbers of frames: the
\* second span makes up for the part of a frame the first one left
C15_Witness ==
    /\ InWalk
    /\ InSched
    /\ locals.i = 2
    /\ (WalkEntries[1].duration_sec * args.fps) % TicksPerSec # 0
    /\ Len(locals.dx[1]) >= 1
    /\ Len(locals.dx[2]) > FloorFrames(WalkEntries[2].duration_sec, args.fps)

----------------------------------------------------------------------------
(* Properties of compose_frames                                            *)

InCompose == "background" \in DOMAIN args /\ "cam_pos" \in DOMAIN args

\* what the window of one axis must be: inside the background, not empty,
\* as long as the camera when the background allows it
WindowOk(lo, hi, cam_w, bg_w) ==
    /\ 0 <= lo
    /\ lo < hi
    /\ hi <= bg_w
    /\ hi - lo = (IF bg_w >= cam_w THEN cam_w ELSE bg_w)

\* C10: for every frame and camera position, with positive camera width and
\* height, the crop rectangle lies inside the background, is not empty, is
\* camera.width wide when bg_w >= camera.width (bg_w wide otherwise), likewise
\* for the height; so a frame is camera.width x camera.height when the
\* background is at least that large on both axes.
C10_CropInsideBackground ==
    InCompose /\ args.camera.width > 0 /\ args.camera.height > 0 =>
        /\ locals.err = "none"
        /\ \A f \in 1..Len(locals.frames) :
            LET frame == locals.frames[f]
            IN  /\ WindowOk(frame.cam_l, frame.cam_r, args.camera.width, args.background.w)
                /\ WindowOk(frame.cam_t, frame.cam_b, args.camera.height, args.background.h)
                /\ (args.background.w >= args.camera.width
                        /\ args.background.h >= args.camera.height
                    => /\ frame.width = args.camera.width
                       /\ frame.height = args.camera.height)

\* a call has returned two frames of a camera narrower and lower than the
\* background: in one the requested window overshoots the right edge and is
\* slid back, in the other it overshoots the left edge and is clamped
C10_Witness ==
    /\ InCompose
    /\ pc = "return"
    /\ ret.err = "none"
    /\ Len(ret.frames) = args.n_frames
    /\ args.camera.width < args.background.w
    /\ args.camera.height < args.background.h
    /\ \E f \in 1..Len(ret.frames) :
          /\ (args.background.w \div 2) + args.cam_pos.x[f]
                - (args.camera.width \div 2) + args.camera.width > args.background.w
          /\ ret.frames[f].cam_r = args.background.w
    /\ \E f \in 1..Len(ret.frames) :
          /\ (args.background.w \div 2) + args.cam_pos.x[f]
                - (args.camera.width \div 2) < 0
          /\ ret.frames[f].cam_l = 0

----------------------------------------------------------------------------
(* Properties of the editor's rendering handlers                           *)

Rendered == pc \in {"preview_scene", "export_scene"}

\* C1: for every scene whose background is set, rendering it (the scheduler
\* for each scene actor, the camera resolver, the compositor, as
\* get_scene_frames drives them) completes without raising and returns
\* exactly floor(scene.duration_sec * fps) frames.
C1_RenderReturnsAllFrames ==
    Rendered /\ curr_scene_idx # NoneIdx =>
        LET scene == scenes[curr_scene_idx + 1]
        IN  scene.background # None =>
                /\ ret.err = "none"
                /\ ret.frames # None
                /\ Len(ret.frames[1]) = IntFrames(scene.duration_sec, SceneFps)

\* C6: get_scene_frames on a selected scene without background returns None
\* without entering the scheduler, the camera resolver or the compositor,
\* and leaves scenes, actors, save statuses and selection indices as they
\* were; preview_scene and export_scene then open no popup and write no file.
C6_NoBackgroundNoRender ==
    [][(/\ pc' \in {"preview_scene", "export_scene"}
        /\ curr_scene_idx # NoneIdx
        /\ scenes[curr_scene_idx + 1].background = None)
       => /\ ret'.err = "none"
          /\ ret'.frames = None
          /\ called' = {}
          /\ UNCHANGED doc_vars
          /\ popups' = 0
          /\ files' = 0]_vars

\* export_scene has just run on a selected scene without background that has
\* actors and camera moves, one of each selected: nothing was rendered, the
\* notice was shown
C6_Witness ==
    /\ pc = "export_scene"
    /\ curr_scene_idx # NoneIdx
    /\ scenes[curr_scene_idx + 1].background = None
    /\ Len(scenes[curr_scene_idx + 1].actors) > 0
    /\ Len(scenes[curr_scene_idx + 1].camera.moves) > 0
    /\ curr_sa_idx # NoneIdx
    /\ curr_cam_move_idx # NoneIdx
    /\ ret.frames = None
    /\ called = {}
    /\ notices = 1
    /\ files = 0
    /\ popups = 0
\* C12: rendering never changes the document: once the scheduler, the camera
\* resolver and the compositor have run over the selected scene, the scenes
\* (background, camera, moves, scene actors, schedules, actions, components,
\* the order and length of every list) and the actors are what they were.
C12_RenderLeavesDocument ==
    [][pc' \in {"preview_scene", "export_scene"} =>
          /\ scenes' = scenes
          /\ actors' = actors
          /\ scenes_save_status' = scenes_save_status
          /\ actors_save_status' = actors_save_status]_vars

\* a render that went through the three functions and pasted a sprite
C12_Witness ==
    /\ Rendered
    /\ called = {"get_scene_actor_frames", "get_camera_pos", "compose_frames"}
    /\ ret.err = "none"
    /\ ret.frames # None
    /\ \E k \in 1..Len(ret.frames[1]) : ret.frames[1][k].pastes # <<>>
    /\ Len(scenes[curr_scene_idx + 1].camera.moves) > 0
\* the paste covers the pixel (px, py) of the canvas
Covers(p, px, py) ==
    /\ p.left <= px /\ px < p.left + p.sprite.w
    /\ p.top <= py /\ py < p.top + p.sprite.h

\* the sprite seen at a pixel after the pastes, the later over the earlier;
\* NoneSprite where the background shows
TopAt(pastes, px, py) ==
    LET hits == {k \in 1..Len(pastes) : Covers(pastes[k], px, py)}
    IN  IF hits = {} THEN NoneSprite
        ELSE pastes[CHOOSE k \in hits : \A j \in hits : j <= k].sprite

\* C22: in every frame the actors are pasted in the reverse of their order
\* in scene.actors, so wherever the sprites of two visible actors overlap
\* the actor listed earlier covers the one listed later; an actor whose
\* sprite is absent at that frame pastes nothing.
C22_EarlierActorOnTop ==
    InCompose /\ locals.err = "none" =>
        \A f \in 1..Len(locals.frames) :
            LET info == args.actors_frame_info
                x0 == args.background.w \div 2
                y0 == args.background.h \div 2
                vis == {k \in 1..Len(args.actors) :
                            info[args.actors[k]].sprites[f] # NoneSprite}
                pastes == locals.frames[f].pastes
            IN  /\ Len(pastes) = Cardinality(vis)
                /\ \A px \in 0..(args.background.w - 1), py \in 0..(args.background.h - 1) :
                      LET cov == {k \in vis :
                                    Covers(paste_of(info[args.actors[k]], f - 1, x0, y0),
                                           px, py)}
                      IN  TopAt(pastes, px, py) =
                            IF cov = {} THEN NoneSprite
                            ELSE info[args.actors[CHOOSE k \in cov :
                                        \A j \in cov : k <= j]].sprites[f]

\* a frame in which the walker's sprite lies over the idler's on a pixel of
\* the canvas, the actor between them showing nothing
C22_Witness ==
    /\ InCompose
    /\ pc = "return"
    /\ ret.err = "none"
    /\ \E f \in 1..Len(ret.frames) :
          /\ Len(ret.frames[f].pastes) = 2
          /\ ret.frames[f].pastes[1].sprite = SpriteB
          /\ ret.frames[f].pastes[2].sprite = SpriteA
          /\ \E px \in 0..(args.background.w - 1), py \in 0..(args.background.h - 1) :
                /\ Covers(ret.frames[f].pastes[1], px, py)
                /\ Covers(ret.frames[f].pastes[2], px, py)
                /\ TopAt(ret.frames[f].pastes, px, py) = SpriteA

Clamp(v, lo, hi) == IF v < lo THEN lo ELSE IF v > hi THEN hi ELSE v

\* the window the claim prescribes on one axis
ClampedWindow(lo, hi, size, bg_size, center) ==
    IF size >= bg_size
    THEN lo = 0 /\ hi = bg_size
    ELSE /\ lo = Clamp(center - (size \div 2), 0, bg_size - size)
         /\ hi = lo + size
         /\ (0 <= center - (size \div 2) /\ center - (size \div 2) + size <= bg_size
                => lo = center - (size \div 2))

\* C23: on an axis where the background is larger than the camera the low
\* edge of the crop is clamp(center - size//2, 0, bg_size - size), with
\* center = bg_size//2 + cam_x[i] horizontally and bg_size//2 - cam_y[i]
\* vertically: a rectangle that fits is used unchanged, one that does not is
\* slid flush against the edge it crosses at full size; where the camera is
\* at least as large as the background the crop is the full extent.
C23_CropIsClampedWindow ==
    InCompose /\ locals.err = "none" =>
        \A f \in 1..Len(locals.frames) :
            LET frame == locals.frames[f]
            IN  /\ ClampedWindow(frame.cam_l, frame.cam_r, args.camera.width,
                                 args.background.w,
                                 (args.background.w \div 2) + args.cam_pos.x[f])
                /\ ClampedWindow(frame.cam_t, frame.cam_b, args.camera.height,
                                 args.background.h,
                                 (args.background.h \div 2) - args.cam_pos.y[f])

\* two frames of a camera lower than the background: in one the window
\* fits and is used as asked for; in the other it crosses
\* the bottom edge and is slid up against it
C23_Witness ==
    /\ InCompose
    /\ pc = "return"
    /\ ret.err = "none"
    /\ args.camera.height < args.background.h
    /\ args.camera.width >= args.background.w
    /\ \E f \in 1..Len(ret.frames) :
          /\ ret.frames[f].cam_t = (args.background.h \div 2) - args.cam_pos.y[f]
                                      - (args.camera.height \div 2)
          /\ ret.frames[f].cam_t >= 0
          /\ ret.frames[f].cam_b = ret.frames[f].cam_t + args.camera.height
          /\ ret.frames[f].cam_b < args.background.h
    /\ \E f \in 1..Len(ret.frames) :
          /\ (args.background.h \div 2) - args.cam_pos.y[f]
                - (args.camera.height \div 2) + args.camera.height > args.background.h
          /\ ret.frames[f].cam_b = args.background.h
          /\ ret.frames[f].cam_t = args.background.h - args.camera.height

----------------------------------------------------------------------------
(* Properties of the editing handlers                                      *)

\* the actors of the scene actors, scene by scene
ActorsPlaced(scenes_list) ==
    [s \in 1..Len(scenes_list) |->
        [k \in 1..Len(scenes_list[s].actors) |-> scenes_list[s].actors[k].actor]]

\* C25: a scene actor has its own copy of the actor it was placed from:
\* adding an action to a document actor in the Actors tab leaves the actor
\* of every scene actor as it was
C25_PlacedActorIsCopy ==
    [][pc' = "add_action" => ActorsPlaced(scenes') = ActorsPlaced(scenes)]_vars

\* C28: every camera move of every scene is free or linked to a scene actor
\* that is in the actors list of its scene
C28_LinkedActorInScene ==
    \A s \in 1..Len(scenes) : \A m \in 1..Len(scenes[s].camera.moves) :
        LET linked_sa == scenes[s].camera.moves[m].linked_sa
        IN  linked_sa = None \/ linked_sa[1] \in Range(scenes[s].actors)

\* idx is None or an index of the list s
NoneOrIndex(idx, s) == idx = NoneIdx \/ (0 <= idx /\ idx < Len(s))

\* C29: the selections of the scene tab point into the selected scene: the
\* scene actor selected is one of its actors, the scheduled action selected
\* one of that scene actor's, the camera move selected one of its camera's,
\* and without a selected scene nothing is selected
C29_SelectionsInRange ==
    IF curr_scene_idx = NoneIdx
    THEN curr_sa_idx = NoneIdx /\ curr_sched_idx = NoneIdx /\ curr_cam_move_idx = NoneIdx
    ELSE /\ NoneOrIndex(curr_sa_idx, scenes[curr_scene_idx + 1].actors)
         /\ NoneOrIndex(curr_cam_move_idx, scenes[curr_scene_idx + 1].camera.moves)
         /\ curr_sched_idx # NoneIdx =>
               /\ curr_sa_idx # NoneIdx
               /\ curr_sa_idx < Len(scenes[curr_scene_idx + 1].actors)
               /\ curr_sched_idx < Len(scenes[curr_scene_idx + 1].actors[curr_sa_idx + 1]
                                           .scheduled_actions)

----------------------------------------------------------------------------
(* Properties of the scene serialisation                                   *)

SceneLoaded == pc = "loaded" /\ "s" \in DOMAIN args

\* C26: in the scene read back from the dictionary of a scene, every camera
\* move that was linked to one of the scene's actors is linked to an object
\* of the loaded actors list, the scene actor at its position equals the
\* one the move was linked to, and so the link is a key of the tracks
\* computed for the loaded actors
C26_LinksRelinked ==
    SceneLoaded =>
        \A m \in 1..Len(args.s.camera.moves) :
            LET was == args.s.camera.moves[m].linked_sa
                now == ret.scene.camera.moves[m].linked_sa
            IN  (was # None /\ was[1].idx # NoneIdx) =>
                    /\ now # None
                    /\ now[1].idx # NoneIdx
                    /\ now[1].idx < Len(ret.scene.actors)
                    /\ now[1].sa = ret.scene.actors[now[1].idx + 1]
                    /\ ret.scene.actors[now[1].idx + 1] = args.s.actors[was[1].idx + 1]

\* a move linked to the second of two equal scene actors has been read back
C26_Witness ==
    /\ SceneLoaded
    /\ \E m \in 1..Len(args.s.camera.moves) :
          LET was == args.s.camera.moves[m].linked_sa
          IN  /\ was # None
              /\ was[1].idx = 1
              /\ args.s.actors[1] = args.s.actors[2]
              /\ ret.scene.camera.moves[m].linked_sa[1].idx = 0

----------------------------------------------------------------------------
(* Properties of the animation popup                                       *)

\* the call of animate that ends in the step has shown the frame of the
\* time elapsed since start_time
ShowsFrameOfElapsed ==
    pc' = "shown" =>
        /\ locals'.elapsed = locals'.now - locals'.start_time
        /\ locals'.image
              = Min(FloorFrames(locals'.elapsed, args.fps), args.frame_count - 1)
        /\ 0 <= locals'.image
        /\ locals'.image <= args.frame_count - 1
        /\ locals'.elapsed * args.fps <= args.frame_count * TicksPerSec

\* the call of animate that ends in the step has found the cycle over and
\* has set start_time to the clock: the time elapsed is 0 again
RestartsAtZero ==
    pc' = "restarted" =>
        /\ locals'.elapsed * args.fps > args.frame_count * TicksPerSec
        /\ locals'.now - locals'.start_time = 0
        /\ locals'.image = locals.image

\* no step of a closed popup shows a frame or leaves a callback pending
\* that was not pending before
ClosedStaysStill ==
    ~locals.running =>
        /\ pc' # "shown"
        /\ pc' # "restarted"
        /\ locals'.image = locals.image
        /\ ~locals'.after
        /\ ~locals'.running

\* C30: while the popup runs, every frame it shows has index
\* min(floor(elapsed * fps), frame_count - 1), within [0, frame_count - 1];
\* a call that finds elapsed beyond frame_count / fps shows nothing and
\* starts again from elapsed = 0; once close() has run, no frame is shown
\* and animate is not scheduled again
C30_PopupPlaysAndStops ==
    [][ShowsFrameOfElapsed /\ RestartsAtZero /\ ClosedStaysStill]_vars

\* the popup has shown its last frame at the very end of a cycle, where
\* floor(elapsed * fps) is frame_count, has been closed, and the pending
\* callback has run
C30_Witness ==
    /\ pc = "returned"
    /\ "frame_count" \in DOMAIN args
    /\ args.frame_count > 1
    /\ locals.elapsed * args.fps = args.frame_count * TicksPerSec
    /\ locals.image = args.frame_count - 1
    /\ locals.start_time > 0

====
